---- MODULE Spec2Model ----
(***************************************************************************)
(* A model of the ioc-n-di dependency-injection container                  *)
(* (src/src/index.ts): the provider registry, the instance cache, the      *)
(* resolution stack, the async resolution engine split at its awaits, the  *)
(* bulk resolver and the lazy references.                                  *)
(*                                                                         *)
(* Tokens are strings.  A class constructor used as a token is the name of *)
(* the class; a string token carries the prefix "s:".                      *)
(***************************************************************************)
EXTENDS Naturals, Sequences, FiniteSets, TLC

\* ------------------------------------------------------------------------
\* Bounds of the model
\* ------------------------------------------------------------------------

\* Number of top-level async calls that may be in flight at the same time.
MaxTasks == 2

\* A new top-level call starts only while every token has been constructed
\* fewer than MaxBuilds times.
MaxBuilds == 2

\* ------------------------------------------------------------------------
\* Values
\* ------------------------------------------------------------------------

Undefined == [k |-> "prim", v |-> "undefined"]

Prim(x) == [k |-> "prim", v |-> x]

\* JavaScript truthiness of a value: the primitives below are the falsy ones.
Falsy(val) == val.k = "prim" /\ val.v \in {"undefined", "null", "zero", "false", "empty"}

\* A reference to a constructed object: the token it was built for and the
\* ordinal of that construction.
Ref(tok, n) == [k |-> "ref", tok |-> tok, n |-> n]

\* The identity of a value: objects by reference, primitives by value.
Id(val) == IF val.k = "obj" THEN Ref(val.tok, val.n) ELSE val

\* ------------------------------------------------------------------------
\* The classes of the application (decorator metadata)
\* ------------------------------------------------------------------------

NoInject == [k |-> "undefined", tok |-> "undefined"]

Inject(tok) == [k |-> "token", tok |-> tok]

\* @Lazy(token): the inline tagged object { __lazyToken: token }
Lazy(tok) == [k |-> "lazyNew", tok |-> tok]

\* lazy(() => Class): a LazyRefMarker
lazy(cls) == [k |-> "lazyOld", tok |-> cls]

Meta(pt, it, oi, od, ct) ==
    [paramTypes |-> pt, injectTokens |-> it, onInit |-> oi, onDestroy |-> od,
     ctorThrows |-> ct]

Classes ==
    {"Basic", "Dep", "Multi", "CircularA", "CircularB", "K1", "K3",
     "LA", "LB", "Hooked", "BadInit", "BadCtor", "NoTok", "Wrap",
     "UsesLB", "Controllers", "AppModule", "Pair",
     "SelfRef", "Ouro", "Ring", "Loop", "Mute", "MuteModule"}

\* design:paramtypes, inject:tokens, and whether the class has onInit /
\* onDestroy methods ("none", "ok", "throws": the hook throws an Error,
\* "throwsUndefined": the hook executes `throw undefined`) and a throwing
\* constructor.
ClassMeta(c) ==
    CASE c = "Basic"     -> Meta(<<>>, <<>>, "none", "none", FALSE)
      [] c = "Dep"       -> Meta(<<"Basic">>, <<>>, "none", "none", FALSE)
      [] c = "Multi"     -> Meta(<<"Basic", "Dep", "Basic">>, <<>>, "none", "none", FALSE)
      [] c = "CircularA" -> Meta(<<"CircularB">>, <<Inject("s:CircularB")>>, "none", "none", FALSE)
      [] c = "CircularB" -> Meta(<<"Object">>, <<Inject("s:CircularA")>>, "none", "none", FALSE)
      [] c = "K1"        -> Meta(<<"Object">>, <<Inject("s:K2")>>, "none", "none", FALSE)
      [] c = "K3"        -> Meta(<<"Object">>, <<Inject("s:K1")>>, "none", "none", FALSE)
      [] c = "LA"        -> Meta(<<"LazyRef">>, <<Lazy("LB")>>, "none", "none", FALSE)
      [] c = "LB"        -> Meta(<<"LazyRef">>, <<lazy("LA")>>, "none", "none", FALSE)
      [] c = "Hooked"    -> Meta(<<>>, <<>>, "ok", "ok", FALSE)
      [] c = "BadInit"   -> Meta(<<>>, <<>>, "throws", "none", FALSE)
      [] c = "BadCtor"   -> Meta(<<>>, <<>>, "none", "none", TRUE)
      [] c = "Mute"      -> Meta(<<>>, <<>>, "none", "throwsUndefined", FALSE)
      [] c = "NoTok"     -> Meta(<<"undefined">>, <<>>, "none", "none", FALSE)
      [] c = "Wrap"      -> Meta(<<"Basic", "BadInit">>, <<>>, "none", "none", FALSE)
      [] c = "UsesLB"    -> Meta(<<"LB">>, <<>>, "none", "none", FALSE)
      [] c = "SelfRef"   -> Meta(<<"Object", "Object", "SelfRef">>,
                                 <<Inject("s:B"), Inject("s:B")>>, "none", "none", FALSE)
      [] c = "Ouro"      -> Meta(<<"Ouro">>, <<>>, "none", "none", FALSE)
      [] c = "Pair"      -> Meta(<<"Object", "Basic">>, <<Inject("s:H")>>, "none", "none", FALSE)
      [] OTHER           -> Meta(<<>>, <<>>, "none", "none", FALSE)

\* typeof token === 'function'
IsConstructor(tok) == tok \in Classes

\* ------------------------------------------------------------------------
\* Providers
\* ------------------------------------------------------------------------

\* The four provider forms.  A field the form does not have is "undefined".
ClassProvider(tok, cls, oi, od) ==
    [provide |-> tok, ctor |-> "undefined", useClass |-> cls, useValue |-> Undefined,
     useFactory |-> "undefined", deps |-> <<>>, onInit |-> oi, onDestroy |-> od,
     makes |-> "undefined", fthrows |-> "none"]

ValueProvider(tok, val) ==
    [provide |-> tok, ctor |-> "undefined", useClass |-> "undefined", useValue |-> val,
     useFactory |-> "undefined", deps |-> <<>>, onInit |-> "none", onDestroy |-> "none",
     makes |-> "undefined", fthrows |-> "none"]

\* makes: the class of the object the factory function returns (or a
\* primitive name); fthrows: whether the factory function throws ("none",
\* "throws" an Error, "throwsUndefined": `throw undefined`).
FactoryProvider(tok, deps, makes, fthrows, oi, od) ==
    [provide |-> tok, ctor |-> "undefined", useClass |-> "undefined", useValue |-> Undefined,
     useFactory |-> "fn", deps |-> deps, onInit |-> oi, onDestroy |-> od,
     makes |-> makes, fthrows |-> fthrows]

\* A plain class constructor given as the provider.
PlainClass(cls) ==
    [provide |-> "undefined", ctor |-> cls, useClass |-> "undefined", useValue |-> Undefined,
     useFactory |-> "undefined", deps |-> <<>>, onInit |-> "none", onDestroy |-> "none",
     makes |-> "undefined", fthrows |-> "none"]

\* A provider object written with a `deps` array.
WithDeps(p, deps) == [p EXCEPT !.deps = deps]

isClassProvider(p) == p.useClass # "undefined"

isValueProvider(p) == p.useValue # Undefined

isFactoryProvider(p) == p.useFactory # "undefined"

getProviderKey(p) ==
    IF isClassProvider(p) \/ isValueProvider(p) \/ isFactoryProvider(p)
    THEN p.provide
    ELSE p.ctor

\* ------------------------------------------------------------------------
\* The applications the container is driven by: the providers each one
\* registers and the tokens it asks for.
\* ------------------------------------------------------------------------

Apps ==
    {"diamond", "cycle", "cycle3", "lazy", "values", "hooks", "hooks2", "fail1", "fail2",
     "barrier", "modules", "lazydeps", "teardown", "void", "ordered", "rings",
     "rereg", "mute"}

\* The applications whose registries the weight calls are made on.
WeightApps ==
    {"diamond", "cycle", "cycle3", "lazy", "values", "barrier", "modules", "lazydeps",
     "restale"}

\* The applications whose classes depend on themselves.
LiveApps == {"selfref"}

\* The applications that issue a call while another one is suspended.
ConcurrentApps == {"diamond"}

AppProviders(a) ==
    CASE a = "diamond" -> {PlainClass("Basic"), PlainClass("Dep"), PlainClass("Multi")}
      [] a = "cycle"   -> {ClassProvider("s:CircularA", "CircularA", "none", "none"),
                           ClassProvider("s:CircularB", "CircularB", "none", "none")}
      [] a = "cycle3"  -> {ClassProvider("s:K1", "K1", "none", "none"),
                           FactoryProvider("s:K2", <<"Basic", "s:K3">>, "Basic", "none", "none", "none"),
                           ClassProvider("s:K3", "K3", "none", "none")}
      [] a = "lazy"    -> {PlainClass("LA"), PlainClass("LB")}
      [] a = "values"  -> {ValueProvider("s:V", Prim("zero")),
                           ValueProvider("s:V", Prim("false")),
                           ValueProvider("s:V", Prim("empty")),
                           ValueProvider("s:V", Prim("null")),
                           ValueProvider("s:V", Prim("42")),
                           FactoryProvider("s:F", <<"s:V">>, "Basic", "none", "none", "none")}
      [] a = "hooks"   -> {ClassProvider("s:H", "Hooked", "ok", "ok"),
                           FactoryProvider("s:F", <<"s:H">>, "Hooked", "none", "ok", "ok")}
      [] a = "hooks2"  -> {ClassProvider("s:P", "Basic", "ok", "none"),
                           PlainClass("Hooked")}
      [] a = "fail1"   -> {PlainClass("Basic"), PlainClass("BadInit"), PlainClass("Wrap")}
      [] a = "fail2"   -> {PlainClass("Basic"),
                           FactoryProvider("s:FT", <<"Basic">>, "Basic", "throws", "none", "none"),
                           ClassProvider("s:PB", "Basic", "throws", "none")}
      [] a = "barrier" -> {WithDeps(ValueProvider("s:READY", Prim("true")), <<"Controllers">>),
                           FactoryProvider("s:APP", <<"s:READY">>, "Basic", "none", "none", "none"),
                           PlainClass("Dep")}
      [] a = "modules" -> {PlainClass("Basic"), PlainClass("Dep"),
                           FactoryProvider("s:SRV", <<"AppModule">>, "Basic", "none", "none", "none")}
      [] a = "lazydeps" -> {PlainClass("LA"), PlainClass("LB"),
                            WithDeps(ClassProvider("s:X", "UsesLB", "none", "none"), <<"LA">>)}
      [] a = "teardown" -> {FactoryProvider("s:Z", <<>>, "zero", "none", "none", "ok"),
                            ClassProvider("s:T", "Hooked", "none", "throws"),
                            PlainClass("Hooked")}
      [] a = "void"    -> {FactoryProvider("s:U", <<>>, "undefined", "none", "none", "none"),
                           ValueProvider("s:N", Prim("null"))}
      [] a = "ordered" -> {ClassProvider("s:H", "Hooked", "ok", "none"),
                           PlainClass("Basic"),
                           FactoryProvider("s:O", <<"s:H", "Basic">>, "Basic", "none", "none", "none")}
      [] a = "selfref" -> {ClassProvider("s:B", "Basic", "none", "none"),
                           PlainClass("SelfRef")}
      [] a = "rings"   -> {PlainClass("Basic"), PlainClass("Dep"),
                           FactoryProvider("s:R", <<"Ring">>, "Basic", "none", "none", "none")}
      [] a = "rereg"   -> {ClassProvider("s:W", "Basic", "none", "ok"),
                           FactoryProvider("s:W", <<>>, "Hooked", "none", "none", "none"),
                           ValueProvider("s:W", Prim("42"))}
      [] a = "mute"    -> {FactoryProvider("s:G", <<>>, "Basic", "throwsUndefined", "none", "none"),
                           ClassProvider("s:Q", "Basic", "none", "throwsUndefined"),
                           PlainClass("Mute")}
      [] a = "restale" -> {ClassProvider("s:X", "Dep", "none", "none"),
                           ValueProvider("s:X", Prim("42")),
                           PlainClass("Basic"),
                           WithDeps(ClassProvider("s:Y", "Basic", "none", "none"), <<"Basic">>)}
      [] OTHER         -> {}

\* Tokens the application resolves besides the keys of its providers.
AppExtraTokens(a) ==
    CASE a = "fail2"  -> {"BadCtor", "NoTok", "s:UNKNOWN"}
      [] a = "values" -> {"s:UNKNOWN"}
      [] a = "ordered" -> {"Pair"}
      [] a = "selfref" -> {"Ouro"}
      [] OTHER        -> {}

AppTokens(a) == {getProviderKey(p) : p \in AppProviders(a)} \cup AppExtraTokens(a)

AllTokens == UNION {AppTokens(a) : a \in Apps \cup WeightApps \cup LiveApps}

\* The text of each string token.
StringTokens ==
    ("s:CircularA" :> "CircularA") @@ ("s:CircularB" :> "CircularB") @@
    ("s:K1" :> "K1") @@ ("s:K2" :> "K2") @@ ("s:K3" :> "K3") @@
    ("s:V" :> "V") @@ ("s:F" :> "F") @@ ("s:FT" :> "FT") @@ ("s:H" :> "H") @@
    ("s:P" :> "P") @@ ("s:PB" :> "PB") @@ ("s:UNKNOWN" :> "UNKNOWN") @@
    ("s:READY" :> "READY") @@ ("s:APP" :> "APP") @@ ("s:SRV" :> "SRV") @@
    ("s:X" :> "X") @@ ("s:Z" :> "Z") @@ ("s:T" :> "T") @@
    ("s:U" :> "U") @@ ("s:N" :> "N") @@ ("s:O" :> "O") @@ ("s:R" :> "R") @@
    ("s:W" :> "W") @@ ("s:Y" :> "Y") @@ ("s:G" :> "G") @@ ("s:Q" :> "Q") @@
    ("s:B" :> "B")

\* Container.getTokenName: a string token is its own name, a class is named
\* by its constructor.
getTokenName(tok) == IF tok \in DOMAIN StringTokens THEN StringTokens[tok] ELSE tok

TokenNames(toks) == [i \in 1..Len(toks) |-> getTokenName(toks[i])]

\* ------------------------------------------------------------------------
\* Insertion-ordered maps and sets (JavaScript Map and Set) as sequences
\* ------------------------------------------------------------------------

Keys(m) == {m[i].key : i \in 1..Len(m)}

MapHas(m, key) == key \in Keys(m)

MapIndex(m, key) == CHOOSE i \in 1..Len(m) : m[i].key = key

\* Map.get: undefined when the key is absent
MapGet(m, key) == IF MapHas(m, key) THEN m[MapIndex(m, key)].val ELSE Undefined

\* Map.set: an existing key keeps its position
MapSet(m, key, val) ==
    IF MapHas(m, key)
    THEN [m EXCEPT ![MapIndex(m, key)] = [key |-> key, val |-> val]]
    ELSE Append(m, [key |-> key, val |-> val])

MapDelete(m, key) == SelectSeq(m, LAMBDA e : e.key # key)

SetHas(s, x) == \E i \in 1..Len(s) : s[i] = x

SetAdd(s, x) == IF SetHas(s, x) THEN s ELSE Append(s, x)

SetDelete(s, x) == SelectSeq(s, LAMBDA e : e # x)

\* ------------------------------------------------------------------------
\* Results of calls, errors, call frames
\* ------------------------------------------------------------------------

NoErr == [kind |-> "none", tok |-> "undefined", chain |-> <<>>, idx |-> 0]

\* The chain without the token that closes it.
CircularError_StackOnly(stack, tok) ==
    [kind |-> "Circular dependency detected", tok |-> tok,
     chain |-> TokenNames(stack), idx |-> 0]

\* `Circular dependency detected!\nChain: ${chain} -> ${name}` (lines 1008-1014)
CircularError(stack, tok) ==
    [kind |-> "Circular dependency detected", tok |-> tok,
     chain |-> Append(TokenNames(stack), getTokenName(tok)), idx |-> 0]

\* `No provider found for token: ...` (line 1030)
NoProviderError(tok) ==
    [kind |-> "No provider found", tok |-> tok, chain |-> <<>>, idx |-> 0]

\* `Cannot resolve dependency at index ${index} for ${target.name}` (line 1148)
MissingTokenError(cls, index) ==
    [kind |-> "Cannot resolve dependency", tok |-> cls, chain |-> <<>>, idx |-> index]

\* An error thrown by user code: a constructor, a factory function or a hook.
UserError(what, tok) == [kind |-> what, tok |-> tok, chain |-> <<>>, idx |-> 0]

\* What user code throws: an Error, or the value undefined (an error of
\* kind "undefined").
Thrown(how, what, tok) ==
    IF how = "throwsUndefined"
    THEN [kind |-> "undefined", tok |-> "undefined", chain |-> <<>>, idx |-> 0]
    ELSE UserError(what, tok)

\* `${error.message}` evaluated in a catch block whose error is undefined:
\* TypeError: Cannot read properties of undefined (reading 'message')
MessageTypeError ==
    [kind |-> "Cannot read properties of undefined", tok |-> "message",
     chain |-> <<>>, idx |-> 0]

Ok(val) == [ok |-> TRUE, val |-> val, err |-> NoErr]

Err(e) == [ok |-> FALSE, val |-> Undefined, err |-> e]

NoProvider == PlainClass("undefined")

\* One activation of an async method.  f names the method; the other fields
\* are its locals (those the method does not have keep their defaults).
Frame(f, tok, skip, provider, branch, target) ==
    [f |-> f, tok |-> tok, skip |-> skip, provider |-> provider, branch |-> branch,
     pc |-> "await", inst |-> Undefined, popped |-> FALSE,
     target |-> target, idx |-> 1, args |-> <<>>,
     sorted |-> <<>>, lazyTargets |-> {}, pass |-> 1, failed |-> {}]

\* new LazyRef(container, token)
LazyRef(tok) == [k |-> "lazy", tok |-> tok]

\* What a constructor or factory stores of an argument: objects by reference.
ArgOf(val) == IF val.k = "obj" THEN Ref(val.tok, val.n) ELSE val

Tasks == 1..MaxTasks

IdleTask ==
    [status |-> "idle", op |-> "none", tok |-> "undefined", skip |-> FALSE,
     fr |-> <<>>, r |-> Ok(Undefined),
     startInst |-> <<>>, startProv |-> <<>>, startBuilt |-> <<>>, raised |-> NoErr, got |-> {}, failed |-> {},
     log |-> <<>>, list |-> <<>>, startCache |-> <<>>, startMeta |-> <<>>,
     prev |-> [seen |-> FALSE, id |-> Undefined, built |-> 0]]

\* ------------------------------------------------------------------------
\* State
\* ------------------------------------------------------------------------

VARIABLES
    app,               \* the application driving the container
    providers,         \* Container.providers       (Map, insertion-ordered)
    instances,         \* Container.instances       (Map, insertion-ordered)
    resolutionStack,   \* Container.resolutionStack (Set, insertion-ordered)
    weightCache,       \* Container.weightCache     (Map)
    providerMetadata,  \* Container.providerMetadata (Map: token -> onDestroy)
    tasks,             \* the async calls in flight, each with its call frames
    logLevel,          \* Container.logLevel
    built,             \* per token, how many times it was constructed
    lastRes            \* per token, what the last successful resolve returned

vars == <<app, providers, instances, resolutionStack, weightCache,
          providerMetadata, logLevel, tasks, built, lastRes>>

NotSeen == [seen |-> FALSE, id |-> Undefined, built |-> 0]

Init ==
    /\ app \in Apps
    /\ providers = <<>>
    /\ instances = <<>>
    /\ resolutionStack = <<>>
    /\ weightCache = <<>>
    /\ providerMetadata = <<>>
    /\ logLevel = "VERBOSE"
    /\ tasks = [t \in Tasks |-> IdleTask]
    /\ built = [tok \in AllTokens \cup Classes |-> 0]
    /\ lastRes = [tok \in AllTokens \cup Classes |-> NotSeen]

\* ------------------------------------------------------------------------
\* Synchronous accessors
\* ------------------------------------------------------------------------

\* Container.getInstance: the cached value or undefined
getInstance(tok) == MapGet(instances, tok)

\* Container.getInstanceOrThrow
getInstanceOrThrow(tok) ==
    IF ~MapHas(instances, tok)
    THEN Err(UserError("Instance not resolved yet", tok))
    ELSE Ok(MapGet(instances, tok))

\* LazyRef.get and LazyRef.value
LazyRef_get(ref) == getInstanceOrThrow(ref.tok)

\* LazyRef.tryGetValue
LazyRef_tryGetValue(ref) == getInstance(ref.tok)

\* LazyRef.isResolved
LazyRef_isResolved(ref) == getInstance(ref.tok) # Undefined

\* ------------------------------------------------------------------------
\* Groups and dependency weights
\* ------------------------------------------------------------------------

\* Classes carrying group:options metadata, and that metadata.
Groups == {"Controllers", "AppModule", "Ring", "Loop", "MuteModule"}

\* @Group({ providers, deps }): a nested group is listed like a plain class.
GroupMeta(c) ==
    CASE c = "Controllers" -> [providers |-> <<PlainClass("Dep")>>, deps |-> <<>>]
      [] c = "AppModule"   -> [providers |-> <<PlainClass("Basic"), PlainClass("Controllers")>>,
                               deps |-> <<"Controllers">>]
      [] c = "Ring"        -> [providers |-> <<PlainClass("Basic"), PlainClass("Loop")>>,
                               deps |-> <<"Ring">>]
      [] c = "Loop"        -> [providers |-> <<PlainClass("Ring")>>,
                               deps |-> <<"Dep">>]
      [] c = "MuteModule"  -> [providers |-> <<FactoryProvider("s:G", <<>>, "Basic",
                                                               "throwsUndefined", "none", "none"),
                                               PlainClass("Mute")>>,
                               deps |-> <<>>]
      [] OTHER             -> [providers |-> <<>>, deps |-> <<>>]

\* The lists the application passes to bootstrap.
AppBootstraps(a) ==
    CASE a = "barrier" ->
             {<<PlainClass("Controllers"),
                WithDeps(ValueProvider("s:READY", Prim("true")), <<"Controllers">>),
                FactoryProvider("s:APP", <<"s:READY">>, "Basic", "none", "none", "none")>>,
              <<FactoryProvider("s:APP", <<"s:READY">>, "Basic", "none", "none", "none"),
                WithDeps(ValueProvider("s:READY", Prim("true")), <<"Controllers">>),
                PlainClass("Controllers")>>}
      [] a = "modules" ->
             {<<PlainClass("AppModule"),
                FactoryProvider("s:SRV", <<"AppModule">>, "Basic", "none", "none", "none")>>,
              <<PlainClass("Controllers"), PlainClass("AppModule")>>}
      [] a = "lazydeps" ->
             {<<PlainClass("LA"), PlainClass("LB"),
                WithDeps(ClassProvider("s:X", "UsesLB", "none", "none"), <<"LA">>)>>}
      [] a = "hooks" ->
             {<<FactoryProvider("s:F", <<"s:H">>, "Hooked", "none", "ok", "ok"),
                ClassProvider("s:H", "Hooked", "ok", "ok")>>}
      [] a = "mute" -> {<<PlainClass("MuteModule")>>}
      [] a = "rings" ->
             {<<PlainClass("Ring"),
                FactoryProvider("s:R", <<"Ring">>, "Basic", "none", "none", "none")>>}
      [] OTHER -> {}

\* isGroup(target): a constructor with group:options metadata
isGroup(tok) == tok \in Groups

RECURSIVE flattenProvidersRec(_, _)
\* The inner flatten of flattenProviders; acc holds result and visited.
flattenProvidersRec(items, acc) ==
    IF items = <<>> THEN acc
    ELSE LET item == Head(items) IN
         IF item.ctor # "undefined" /\ isGroup(item.ctor)
         THEN IF item.ctor \in acc.visited
              THEN flattenProvidersRec(Tail(items), acc)
              ELSE flattenProvidersRec(Tail(items),
                       flattenProvidersRec(GroupMeta(item.ctor).providers,
                           [acc EXCEPT !.visited = @ \cup {item.ctor}]))
         ELSE flattenProvidersRec(Tail(items), [acc EXCEPT !.result = Append(@, item)])

flattenProviders(items) ==
    flattenProvidersRec(items, [result |-> <<>>, visited |-> {}]).result

ProviderKeys(ps) == [i \in 1..Len(ps) |-> getProviderKey(ps[i])]

RECURSIVE flattenDepsRec(_, _)
\* The inner flatten of flattenDeps; acc holds result and visited.
flattenDepsRec(items, acc) ==
    IF items = <<>> THEN acc
    ELSE LET item == Head(items) IN
         IF isGroup(item)
         THEN IF item \in acc.visited
              THEN flattenDepsRec(Tail(items), acc)
              ELSE LET a1 == flattenDepsRec(GroupMeta(item).deps,
                                 [acc EXCEPT !.visited = @ \cup {item}])
                       a2 == [a1 EXCEPT !.result =
                                 @ \o ProviderKeys(flattenProviders(GroupMeta(item).providers))]
                   IN flattenDepsRec(Tail(items), a2)
         ELSE flattenDepsRec(Tail(items), [acc EXCEPT !.result = Append(@, item)])

flattenDeps(deps) == flattenDepsRec(deps, [result |-> <<>>, visited |-> {}]).result

\* injectionTokens[index]: undefined past the end of the sparse array
InjectAt(meta, index) ==
    IF index <= Len(meta.injectTokens) THEN meta.injectTokens[index] ELSE NoInject

IsLazyMarker(token) == token.k \in {"lazyNew", "lazyOld"}

RECURSIVE classDepsFrom(_, _)
classDepsFrom(meta, index) ==
    IF index > Len(meta.paramTypes) THEN <<>>
    ELSE LET token == InjectAt(meta, index)
             rest == classDepsFrom(meta, index + 1)
         IN IF token.k # "undefined"
            THEN IF IsLazyMarker(token) THEN rest ELSE <<token.tok>> \o rest
            ELSE IF meta.paramTypes[index] # "undefined"
                 THEN <<meta.paramTypes[index]>> \o rest
                 ELSE rest

\* Container.getClassDependencies
getClassDependencies(target) == classDepsFrom(ClassMeta(target), 1)

RECURSIVE Dedup(_)
\* [...new Set(seq)]: first occurrences, in order
Dedup(seq) ==
    IF seq = <<>> THEN <<>>
    ELSE LET init == Dedup(SubSeq(seq, 1, Len(seq) - 1))
             last == seq[Len(seq)]
         IN IF SetHas(init, last) THEN init ELSE Append(init, last)

SetMax(S) == IF S = {} THEN 0 ELSE CHOOSE x \in S : \A y \in S : y <= x

\* The explicit deps alone: constructor dependencies do not count.
WeightDeps_ExplicitOnly(p) ==
    IF isFactoryProvider(p) \/ isClassProvider(p) THEN flattenDeps(p.deps)
    ELSE getClassDependencies(p.ctor)

\* The dependency list calculateWeightRecursive walks for a provider.
WeightDeps(p) ==
    IF isFactoryProvider(p) THEN flattenDeps(p.deps)
    ELSE IF isClassProvider(p)
         THEN Dedup(flattenDeps(p.deps) \o getClassDependencies(p.useClass))
         ELSE getClassDependencies(p.ctor)

\* The weight as the number of dependencies instead of the depth.
calculateWeightRecursive_CountDeps(provs, token, visited) ==
    IF token \in visited THEN 0
    ELSE IF ~MapHas(provs, token) THEN 0
    ELSE LET p == MapGet(provs, token) IN
         IF isValueProvider(p) THEN 0 ELSE Len(WeightDeps(p))

RECURSIVE calculateWeightRecursive(_, _, _)
\* The end of calculateWeightRecursive (lines 1275-1287): 0 without
\* dependencies, else the greatest weight of a dependency plus one.
maxDepWeight(provs, deps, seen) ==
    IF Len(deps) = 0 THEN 0
    ELSE SetMax({calculateWeightRecursive(provs, deps[i], seen) :
                     i \in 1..Len(deps)}) + 1

calculateWeightRecursive(provs, token, visited) ==
    IF token \in visited THEN 0
    ELSE IF ~MapHas(provs, token) THEN 0
    ELSE IF isValueProvider(MapGet(provs, token)) THEN 0
    ELSE maxDepWeight(provs, WeightDeps(MapGet(provs, token)), visited \cup {token})

\* this.weightCache.set(token, weight); return weight
weightCached(cache, token, w) == [weight |-> w, cache |-> MapSet(cache, token, w)]

\* Container.calculateWeight: the weight and the weight cache after the call
calculateWeight(provs, cache, token) ==
    IF MapHas(cache, token)
    THEN [weight |-> MapGet(cache, token), cache |-> cache]
    ELSE weightCached(cache, token,
                      IF ~MapHas(provs, token) \/ isValueProvider(MapGet(provs, token))
                      THEN 0
                      ELSE calculateWeightRecursive(provs, token, {}))

RECURSIVE weighAll(_, _, _)
\* One turn of the loop: c is what calculateWeight gave for the key at index.
weighFrom(provs, index, c) ==
    LET rest == weighAll(provs, c.cache, index + 1)
    IN [result |-> <<[token |-> provs[index].key, weight |-> c.weight]>> \o rest.result,
        cache |-> rest.cache]

\* The loop of getProvidersByWeight over providers.keys()
weighAll(provs, cache, index) ==
    IF index > Len(provs) THEN [result |-> <<>>, cache |-> cache]
    ELSE weighFrom(provs, index, calculateWeight(provs, cache, provs[index].key))

RECURSIVE stableSort_TiesReversed(_)
\* An insertion sort that puts an element before those of equal weight.
stableSort_TiesReversed(seq) ==
    IF seq = <<>> THEN <<>>
    ELSE LET init == stableSort_TiesReversed(SubSeq(seq, 1, Len(seq) - 1))
             last == seq[Len(seq)]
             k == Cardinality({i \in 1..Len(init) : init[i].weight < last.weight})
         IN SubSeq(init, 1, k) \o <<last>> \o SubSeq(init, k + 1, Len(init))

RECURSIVE stableSort(_)
\* Array.prototype.sort((a, b) => a.weight - b.weight): stable insertion
stableSort(seq) ==
    IF seq = <<>> THEN <<>>
    ELSE LET init == stableSort(SubSeq(seq, 1, Len(seq) - 1))
             last == seq[Len(seq)]
             k == Cardinality({i \in 1..Len(init) : init[i].weight <= last.weight})
         IN SubSeq(init, 1, k) \o <<last>> \o SubSeq(init, k + 1, Len(init))

\* weights.sort((a, b) => a.weight - b.weight) on the weighed list
sortByWeight(all) == [result |-> stableSort(all.result), cache |-> all.cache]

\* Container.getProvidersByWeight: the sorted list and the weight cache after
getProvidersByWeight(provs, cache) == sortByWeight(weighAll(provs, cache, 1))

\* The names getDependencyGraph lists for a provider (lines 1541-1555)
graphDependencies(p) ==
    IF isValueProvider(p) THEN <<>>
    ELSE IF isFactoryProvider(p) THEN TokenNames(p.deps)
    ELSE IF isClassProvider(p) THEN TokenNames(getClassDependencies(p.useClass))
    ELSE TokenNames(getClassDependencies(p.ctor))

RECURSIVE graphAll(_, _, _, _)
\* One turn of the loop: c is what calculateWeight gave for the key at index;
\* graph.set(tokenName, { weight, dependencies }) (line 1557).
graphFrom(provs, index, c, graph) ==
    graphAll(provs, index + 1, c.cache,
             MapSet(graph, getTokenName(provs[index].key),
                    [weight |-> c.weight,
                     dependencies |-> graphDependencies(provs[index].val)]))

\* for (const token of this.providers.keys()) (line 1537)
graphAll(provs, index, cache, graph) ==
    IF index > Len(provs) THEN [result |-> graph, cache |-> cache]
    ELSE graphFrom(provs, index, calculateWeight(provs, cache, provs[index].key), graph)

\* Container.getDependencyGraph: the graph and the weight cache after
getDependencyGraph(provs, cache) == graphAll(provs, 1, cache, <<>>)

\* The lazy targets resolveAll collects (lines 1389-1418)
LazyTargetsOf(provs) ==
    {tok \in AllTokens \cup Classes :
        \E i \in 1..Len(provs) :
            LET p == provs[i].val IN
            /\ ~isValueProvider(p)
            /\ LET target == IF isClassProvider(p) THEN p.useClass ELSE p.ctor
                   its == ClassMeta(target).injectTokens
               IN \E j \in 1..Len(its) : IsLazyMarker(its[j]) /\ its[j].tok = tok}

\* ------------------------------------------------------------------------
\* The resolution engine.
\*
\* An async method runs synchronously up to its next await.  One such run of
\* a call chain is computed by Run over a record s:
\*   inst, stk, built  the container's instances and resolutionStack, and the
\*                     construction counts, as the run changes them
\*   fr                the chain's suspended activations, innermost last
\*   mode              "call"    resolve(s.call) is being entered
\*                     "loop"    the innermost activation continues its loop
\*                     "ret"     an activation has settled with s.r
\*                     "deliver" the awaited result s.r reaches the innermost
\*                               activation
\*                     "yield"   the chain is suspended at an await on s.r
\*                     "done"    the top-level call has settled with s.r
\*   raised, got       the first error thrown, and the nested resolve calls
\*                     that fulfilled, of the top-level call
\*   log               what the top-level call did, in order: "call" (a bulk
\*                     loop calls resolve), "new" (a constructor or a factory
\*                     function is invoked), "set" (instances.set), and the
\*                     teardown hooks destroy invokes
\*   level, out        the container's logLevel during the run, and what the
\*                     run wrote to the console
\* ------------------------------------------------------------------------

\* enum LogLevel
LogLevels == {"OFF", "MINIMAL", "VERBOSE"}

\* A message about token tok.
Message(text, tok) == [text |-> text, tok |-> tok]

\* Container.log(message, level) in a run whose record is s: console.log
\* appends to s.out.
log(s, message, level) ==
    IF s.level = "OFF" THEN s
    ELSE IF level = "MINIMAL" /\ s.level = "MINIMAL"
    THEN [s EXCEPT !.out = Append(@, [stream |-> "log", message |-> message])]
    ELSE IF s.level = "VERBOSE"
    THEN [s EXCEPT !.out = Append(@, [stream |-> "log", message |-> message])]
    ELSE s

\* Container.logError(message): console.error appends to s.out.
logError(s, message) ==
    IF s.level # "OFF"
    THEN [s EXCEPT !.out = Append(@, [stream |-> "error", message |-> message])]
    ELSE s

Top(s) == s.fr[Len(s.fr)]

Pop(fr) == SubSeq(fr, 1, Len(fr) - 1)

SetTop(s, frame) == [s EXCEPT !.fr[Len(s.fr)] = frame]

PushFrames(s, frames) == [s EXCEPT !.fr = @ \o frames, !.mode = "loop"]

Settle(s, r) == [s EXCEPT !.r = r, !.mode = "ret"]

Throw(s, e) ==
    [s EXCEPT !.r = Err(e), !.mode = "ret",
              !.raised = IF @ = NoErr THEN e ELSE @]

Logged(s, e, tok, id) == [s EXCEPT !.log = Append(@, [e |-> e, tok |-> tok, id |-> id])]

Call(s, tok) == [s EXCEPT !.call = [tok |-> tok, skip |-> FALSE], !.mode = "call"]

\* Records that a resolve nested in the call chain fulfilled with val.
Got(s, nested, tok, val) ==
    IF nested
    THEN [s EXCEPT !.got = @ \cup {[tok |-> tok, id |-> Id(val),
                                    cached |-> MapHas(s.inst, tok)]}]
    ELSE s

\* resolve's finally block (lines 1083-1088)
Finally(stk, tok, skip) == IF skip THEN stk ELSE SetDelete(stk, tok)

\* resolve from the provider lookup to the first await (lines 1022-1080)
resolveBody(provs, s) ==
    LET tok == s.call.tok
        skip == s.call.skip
    IN
    IF ~MapHas(provs, tok)
    THEN IF IsConstructor(tok)
         THEN PushFrames(log(s, Message("Instantiating class", tok), "VERBOSE"),
                  <<Frame("resolve", tok, skip, NoProvider, "unregistered", "undefined"),
                    Frame("instantiateClass", tok, skip, NoProvider, "unregistered", tok)>>)
         ELSE Throw([s EXCEPT !.stk = Finally(@, tok, skip)], NoProviderError(tok))
    ELSE LET p == MapGet(provs, tok) IN
         IF isClassProvider(p)
         THEN PushFrames(log(s, Message("Instantiating class", p.useClass), "VERBOSE"),
                  <<Frame("resolve", tok, skip, p, "class", "undefined"),
                    Frame("instantiateClass", tok, skip, p, "class", p.useClass)>>)
         ELSE IF isValueProvider(p)
         THEN Settle(Got(Logged([s EXCEPT !.inst = MapSet(@, tok, p.useValue),
                                          !.stk = Finally(@, tok, skip)],
                                "set", tok, Id(p.useValue)),
                         s.fr # <<>>, tok, p.useValue),
                     Ok(p.useValue))
         ELSE IF isFactoryProvider(p)
         THEN PushFrames(log(s, Message("Calling factory for", p.provide), "VERBOSE"),
                  <<Frame("resolve", tok, skip, p, "factory", "undefined"),
                    Frame("instantiateFactory", tok, skip, p, "factory", "undefined")>>)
         ELSE PushFrames(log(s, Message("Instantiating class", p.ctor), "VERBOSE"),
                  <<Frame("resolve", tok, skip, p, "plain", "undefined"),
                    Frame("instantiateClass", tok, skip, p, "plain", p.ctor)>>)

\* resolve consulting the cache only when logging is on.
resolveLookup_LoggedCache(provs, s) ==
    LET tok == s.call.tok
        skip == s.call.skip
    IN
    IF MapHas(s.inst, tok) /\ s.level # "OFF"
    THEN Settle(Got(log(s, Message("Returning cached instance", "undefined"), "VERBOSE"),
                    s.fr # <<>>, tok, MapGet(s.inst, tok)),
                Ok(MapGet(s.inst, tok)))
    ELSE IF ~skip /\ SetHas(s.stk, tok)
    THEN Throw(s, CircularError(s.stk, tok))
    ELSE resolveBody(provs, [s EXCEPT !.stk = IF skip THEN @ ELSE SetAdd(@, tok)])

\* resolve from the cache lookup on (lines 1000-1020)
resolveLookup(provs, s) ==
    LET tok == s.call.tok
        skip == s.call.skip
    IN
    IF MapHas(s.inst, tok)
    THEN Settle(Got(log(s, Message("Returning cached instance", "undefined"), "VERBOSE"),
                    s.fr # <<>>, tok, MapGet(s.inst, tok)),
                Ok(MapGet(s.inst, tok)))
    ELSE IF ~skip /\ SetHas(s.stk, tok)
    THEN Throw(s, CircularError(s.stk, tok))
    ELSE resolveBody(provs, [s EXCEPT !.stk = IF skip THEN @ ELSE SetAdd(@, tok)])

\* resolve from its entry (lines 994-1020)
resolveEnter(provs, s) ==
    resolveLookup(provs, log(s, Message("Resolving", getTokenName(s.call.tok)), "VERBOSE"))

\* The object `new target(...dependencies)` builds for the resolve activation
\* owner, as the n-th construction for owner's token.
NewObject(owner, cls, args, n) ==
    [k |-> "obj", tok |-> owner.tok, n |-> n, cls |-> cls, args |-> args,
     h |-> <<>>, via |-> owner.branch, pInit |-> owner.provider.onInit]

\* instantiateClass resolving a lazy-marked parameter like any other.
instantiateClass_EagerLazy(s) ==
    LET top == Top(s)
        owner == s.fr[Len(s.fr) - 1]
        meta == ClassMeta(top.target)
        token == InjectAt(meta, top.idx)
    IN
    IF top.idx > Len(meta.paramTypes)
    THEN IF meta.ctorThrows
         THEN Throw(Logged([s EXCEPT !.fr = Pop(@)], "new", owner.tok, Undefined),
                    UserError("constructor threw", top.target))
         ELSE Settle(Logged([s EXCEPT !.fr = Pop(@), !.built[owner.tok] = @ + 1],
                            "new", owner.tok, Ref(owner.tok, s.built[owner.tok] + 1)),
                     Ok(NewObject(owner, top.target, top.args, s.built[owner.tok] + 1)))
    ELSE IF token.k # "undefined"
    THEN Call(s, token.tok)
    ELSE IF meta.paramTypes[top.idx] # "undefined"
    THEN Call(s, meta.paramTypes[top.idx])
    ELSE Throw([s EXCEPT !.fr = Pop(@)], MissingTokenError(top.target, top.idx - 1))

\* One turn of instantiateClass's loop, or the construction after it
\* (lines 1115-1156)
instantiateClass(s) ==
    LET top == Top(s)
        owner == s.fr[Len(s.fr) - 1]
        meta == ClassMeta(top.target)
        token == InjectAt(meta, top.idx)
    IN
    IF top.idx > Len(meta.paramTypes)
    THEN IF meta.ctorThrows
         THEN Throw(Logged([s EXCEPT !.fr = Pop(@)], "new", owner.tok, Undefined),
                    UserError("constructor threw", top.target))
         ELSE Settle(log(Logged([s EXCEPT !.fr = Pop(@), !.built[owner.tok] = @ + 1],
                                "new", owner.tok, Ref(owner.tok, s.built[owner.tok] + 1)),
                         Message("Created instance of", top.target), "VERBOSE"),
                     Ok(NewObject(owner, top.target, top.args, s.built[owner.tok] + 1)))
    ELSE IF token.k # "undefined"
    THEN IF IsLazyMarker(token)
         THEN SetTop(log(s, Message(IF token.k = "lazyNew" THEN "Creating LazyRef wrapper"
                                    ELSE "Creating LazyRef wrapper (old style)",
                                    "undefined"), "VERBOSE"),
                     [top EXCEPT !.args = Append(@, LazyRef(token.tok)), !.idx = @ + 1])
         ELSE Call(log(s, Message("Resolving @Inject token", token.tok), "VERBOSE"),
                   token.tok)
    ELSE IF meta.paramTypes[top.idx] # "undefined"
    THEN Call(log(s, Message("Resolving parameter type", meta.paramTypes[top.idx]), "VERBOSE"),
              meta.paramTypes[top.idx])
    ELSE Throw([s EXCEPT !.fr = Pop(@)], MissingTokenError(top.target, top.idx - 1))

\* What the factory function of provider p returns.
Product(owner, p, args, n) ==
    IF p.makes \in Classes THEN NewObject(owner, p.makes, args, n) ELSE Prim(p.makes)

\* instantiateFactory resolving the deps array from its last entry to its
\* first.
instantiateFactory_LastFirst(s) ==
    LET top == Top(s)
        owner == s.fr[Len(s.fr) - 1]
        p == top.provider
    IN
    IF top.idx > Len(p.deps)
    THEN IF p.fthrows # "none"
         THEN Throw(Logged([s EXCEPT !.fr = Pop(@), !.built[owner.tok] = @ + 1],
                           "new", owner.tok, Undefined),
                    Thrown(p.fthrows, "factory threw", top.tok))
         ELSE [Logged(SetTop(s, [top EXCEPT !.pc = "awaitFactory"]), "new", owner.tok,
                      Id(Product(owner, p, top.args, s.built[owner.tok] + 1)))
                  EXCEPT !.built[owner.tok] = @ + 1,
                         !.r = Ok(Product(owner, p, top.args, s.built[owner.tok] + 1)),
                         !.mode = "yield"]
    ELSE Call(s, p.deps[Len(p.deps) + 1 - top.idx])

\* One turn of instantiateFactory's loop, or the call of the factory function
\* (lines 1174-1179)
instantiateFactory(s) ==
    LET top == Top(s)
        owner == s.fr[Len(s.fr) - 1]
        p == top.provider
    IN
    IF top.idx > Len(p.deps)
    THEN IF p.fthrows # "none"
         THEN Throw(Logged([s EXCEPT !.fr = Pop(@), !.built[owner.tok] = @ + 1],
                           "new", owner.tok, Undefined),
                    Thrown(p.fthrows, "factory threw", top.tok))
         ELSE [Logged(SetTop(s, [top EXCEPT !.pc = "awaitFactory"]), "new", owner.tok,
                      Id(Product(owner, p, top.args, s.built[owner.tok] + 1)))
                  EXCEPT !.built[owner.tok] = @ + 1,
                         !.r = Ok(Product(owner, p, top.args, s.built[owner.tok] + 1)),
                         !.mode = "yield"]
    ELSE Call(s, p.deps[top.idx])

\* The instance after hook was invoked on it: an object remembers its hooks.
Hooked(val, hook) == IF val.k = "obj" THEN [val EXCEPT !.h = Append(@, hook)] ELSE val

\* Container.hasOnInit: the duck-typed check
hasOnInit(val) == val.k = "obj" /\ ClassMeta(val.cls).onInit # "none"

\* resolve caching what it has of the instance when it rejects.
resolveFail_Caching(s) ==
    LET top == Top(s) IN
    [s EXCEPT !.inst = MapSet(@, top.tok, top.inst),
              !.stk = Finally(@, top.tok, top.skip), !.fr = Pop(@), !.mode = "ret"]

\* resolve rejecting without its finally block.
resolveFail_NoPop(s) == [s EXCEPT !.fr = Pop(@), !.mode = "ret"]

\* resolve rejects: its finally block runs and its activation ends.
resolveFail(s) ==
    LET top == Top(s) IN
    [s EXCEPT !.stk = Finally(@, top.tok, top.skip), !.fr = Pop(@), !.mode = "ret"]

\* this.instances.set(token, instance); return instance (lines 1081-1088)
cacheAndReturn(s) ==
    LET top == Top(s) IN
    Settle(Got(Logged([s EXCEPT !.inst = MapSet(@, top.tok, top.inst),
                                !.stk = Finally(@, top.tok, top.skip),
                                !.fr = Pop(@)],
                      "set", top.tok, Id(top.inst)),
               Len(s.fr) > 1, top.tok, top.inst),
           Ok(top.inst))

\* The instance-level hook: if (this.hasOnInit(instance)) await instance.onInit()
instanceOnInit(s) ==
    LET top == Top(s)
        called == [top EXCEPT !.inst = Hooked(@, "instanceOnInit"),
                              !.pc = "awaitInstanceOnInit"]
    IN
    IF ~hasOnInit(top.inst) THEN cacheAndReturn(s)
    ELSE IF ClassMeta(top.inst.cls).onInit \notin {"none", "ok"}
    THEN Throw(resolveFail(SetTop(log(s, Message("Calling instance onInit for",
                                                 getTokenName(top.tok)), "VERBOSE"),
                                  called)),
               Thrown(ClassMeta(top.inst.cls).onInit, "instance onInit threw", top.tok))
    ELSE [SetTop(log(s, Message("Calling instance onInit for", getTokenName(top.tok)),
                     "VERBOSE"),
                 called)
             EXCEPT !.r = Ok(Undefined), !.mode = "yield"]

\* resolve caching the instance before its hooks have run.
providerOnInit_CachingFirst(s) ==
    LET top == Top(s)
        cached == [s EXCEPT !.inst = MapSet(@, top.tok, top.inst)]
        called == [top EXCEPT !.inst = Hooked(@, "providerOnInit"),
                              !.pc = "awaitProviderOnInit"]
    IN
    IF ~(top.branch \in {"class", "factory"} /\ top.provider.onInit # "none")
    THEN instanceOnInit(cached)
    ELSE IF top.provider.onInit \notin {"none", "ok"}
    THEN Throw(resolveFail(SetTop(cached, called)),
               Thrown(top.provider.onInit, "provider onInit threw", top.tok))
    ELSE [SetTop(cached, called) EXCEPT !.r = Ok(Undefined), !.mode = "yield"]

\* The provider-level hook: if (provider.onInit) await provider.onInit(instance)
providerOnInit(s) ==
    LET top == Top(s)
        called == [top EXCEPT !.inst = Hooked(@, "providerOnInit"),
                              !.pc = "awaitProviderOnInit"]
    IN
    IF ~(top.branch \in {"class", "factory"} /\ top.provider.onInit # "none")
    THEN instanceOnInit(s)
    ELSE IF top.provider.onInit \notin {"none", "ok"}
    THEN Throw(resolveFail(SetTop(log(s, Message("Calling provider onInit for",
                                                 getTokenName(top.tok)), "VERBOSE"),
                                  called)),
               Thrown(top.provider.onInit, "provider onInit threw", top.tok))
    ELSE [SetTop(log(s, Message("Calling provider onInit for", getTokenName(top.tok)),
                     "VERBOSE"),
                 called)
             EXCEPT !.r = Ok(Undefined), !.mode = "yield"]

\* resolve running the instance's own onInit before the provider's hook.
resolveResume_InstanceFirst(s) ==
    LET top == Top(s) IN
    IF ~s.r.ok THEN resolveFail(s)
    ELSE IF top.pc = "await"
    THEN instanceOnInit(SetTop(s, [top EXCEPT !.inst = s.r.val]))
    ELSE IF top.pc = "awaitInstanceOnInit" /\ \A i \in 1..Len(top.inst.h) : top.inst.h[i] # "providerOnInit"
    THEN providerOnInit(s)
    ELSE cacheAndReturn(s)

\* resolve continues after one of its awaits (lines 1036-1082)
resolveResume(s) ==
    LET top == Top(s) IN
    IF ~s.r.ok THEN resolveFail(s)
    ELSE IF top.pc = "await"
    THEN providerOnInit(SetTop(s, [top EXCEPT !.inst = s.r.val]))
    ELSE IF top.pc = "awaitProviderOnInit"
    THEN instanceOnInit(s)
    ELSE cacheAndReturn(s)

\* instantiateClass or instantiateFactory continues after `await this.resolve(dep)`,
\* instantiateFactory after `await provider.useFactory(...deps)`
instantiateResume(s) ==
    LET top == Top(s) IN
    IF ~s.r.ok \/ top.pc = "awaitFactory"
    THEN [s EXCEPT !.fr = Pop(@), !.mode = "ret"]
    ELSE [SetTop(s, [top EXCEPT !.args = Append(@, ArgOf(s.r.val)), !.idx = @ + 1])
             EXCEPT !.mode = "loop"]

\* resolveAll with a single loop over the sorted tokens, lazy targets included.
resolveAllLoop_OnePass(s) ==
    LET top == Top(s) IN
    IF top.idx > Len(top.sorted)
    THEN Settle([s EXCEPT !.fr = Pop(@), !.failed = top.failed], Ok(Prim("instances")))
    ELSE IF ~MapHas(s.inst, top.sorted[top.idx])
    THEN Call(Logged(s, "call", top.sorted[top.idx], Undefined), top.sorted[top.idx])
    ELSE SetTop(s, [top EXCEPT !.idx = @ + 1])

\* One turn of a loop of resolveAll (lines 1421-1452)
resolveAllLoop(s) ==
    LET top == Top(s) IN
    IF top.idx > Len(top.sorted)
    THEN IF top.pass = 1
         THEN SetTop(log(s, Message("Resolving lazy-referenced services", "undefined"),
                         "VERBOSE"),
                     [top EXCEPT !.pass = 2, !.idx = 1])
         ELSE Settle(log([s EXCEPT !.fr = Pop(@), !.failed = top.failed],
                         Message("All providers resolved", "undefined"), "MINIMAL"),
                     Ok(Prim("instances")))
    ELSE IF /\ ~MapHas(s.inst, top.sorted[top.idx])
            /\ (top.sorted[top.idx] \in top.lazyTargets) = (top.pass = 2)
    THEN Call(Logged(log(s, Message(IF top.pass = 1 THEN "[Weight] Resolving"
                                    ELSE "[Lazy, Weight] Resolving",
                                    getTokenName(top.sorted[top.idx])), "VERBOSE"),
                     "call", top.sorted[top.idx], Undefined),
              top.sorted[top.idx])
    ELSE SetTop(s, [top EXCEPT !.idx = @ + 1])

\* resolveAll continues after `await this.resolve(token)`: a rejection is
\* caught and logged (lines 1428-1430, 1445-1447).  The message is built
\* from error.message before log is called, so an error that is undefined
\* makes the catch block throw and resolveAll reject.
resolveAllResume(s) ==
    LET top == Top(s) IN
    IF ~s.r.ok /\ s.r.err.kind = "undefined"
    THEN [s EXCEPT !.fr = Pop(@), !.failed = top.failed \cup {top.sorted[top.idx]},
                   !.r = Err(MessageTypeError), !.mode = "ret"]
    ELSE [SetTop(IF s.r.ok THEN s ELSE log(s, Message("Failed", s.r.err.kind), "VERBOSE"),
                 [top EXCEPT !.idx = @ + 1,
                             !.failed = IF s.r.ok THEN @ ELSE @ \cup {top.sorted[top.idx]}])
             EXCEPT !.mode = "loop"]

\* bootstrap continues after `await this.resolveAll()`: return this
\* (lines 1511-1514); a rejection of resolveAll is bootstrap's own.
bootstrapResume(s) ==
    IF ~s.r.ok THEN [s EXCEPT !.fr = Pop(@), !.mode = "ret"]
    ELSE
    Settle(log([s EXCEPT !.fr = Pop(@)],
               Message("Container bootstrapped successfully", "undefined"), "MINIMAL"),
           Ok(Prim("container")))

\* An activation has settled.  A resolve activation that returned the promise
\* of instantiateClass without awaiting it (line 1028) runs its finally block
\* as soon as instantiateClass suspends or settles, and settles as it does.
settled(s) ==
    LET top == Top(s) IN
    IF s.fr = <<>> THEN [s EXCEPT !.mode = "done"]
    ELSE IF top.f = "resolve" /\ top.branch = "unregistered"
    THEN Got([s EXCEPT !.stk = IF top.popped THEN @ ELSE Finally(@, top.tok, top.skip),
                       !.fr = Pop(@)],
             Len(s.fr) > 1 /\ s.r.ok, top.tok, s.r.val)
    ELSE [s EXCEPT !.mode = "yield"]

\* The suspended activations of a chain.  A class without provider that is
\* entered again from its own instantiateClass (line 1144) after its resolve
\* has left the resolution stack (line 1028) adds a round to the chain: a
\* resolve and an instantiateClass activation.  The program keeps every
\* round; a run reads and changes only the innermost activations, so when
\* the two rounds below the innermost one are the same activations the chain
\* is held with one copy of them.
Activations(fr) ==
    LET n == Len(fr)
        repeats ==
            /\ n >= 6
            /\ fr[n - 5] = fr[n - 3] /\ fr[n - 4] = fr[n - 2]
            /\ fr[n - 3].f = "resolve" /\ fr[n - 3].branch = "unregistered"
            /\ fr[n - 3].popped
            /\ fr[n - 2].f = "instantiateClass"
            /\ fr[n - 1].f = "resolve" /\ fr[n - 1].tok = fr[n - 3].tok
            /\ fr[n - 1].branch = "unregistered"
    IN IF repeats THEN SubSeq(fr, 1, n - 4) \o SubSeq(fr, n - 1, n) ELSE fr

\* The chain suspends: every resolve activation on it that returned without
\* awaiting has its finally block run now.
suspend(s) ==
    LET early == {i \in 1..Len(s.fr) :
                     /\ s.fr[i].f = "resolve"
                     /\ s.fr[i].branch = "unregistered"
                     /\ ~s.fr[i].popped}
        gone == {s.fr[i].tok : i \in {j \in early : ~s.fr[j].skip}}
    IN [s EXCEPT !.stk = SelectSeq(@, LAMBDA x : x \notin gone),
                 !.fr = Activations([i \in 1..Len(s.fr) |->
                                        IF i \in early THEN [s.fr[i] EXCEPT !.popped = TRUE]
                                        ELSE s.fr[i]])]

\* One step of a synchronous run.
Step(provs, s) ==
    CASE s.mode = "call" -> resolveEnter(provs, s)
      [] s.mode = "loop" ->
             IF Top(s).f = "instantiateClass" THEN instantiateClass(s)
             ELSE IF Top(s).f = "instantiateFactory" THEN instantiateFactory(s)
             ELSE resolveAllLoop(s)
      [] s.mode = "ret" -> settled(s)
      [] s.mode = "deliver" ->
             IF s.fr = <<>> THEN [s EXCEPT !.mode = "done"]
             ELSE IF Top(s).f = "resolve" THEN resolveResume(s)
             ELSE IF Top(s).f = "resolveAll" THEN resolveAllResume(s)
             ELSE IF Top(s).f = "bootstrap" THEN bootstrapResume(s)
             ELSE instantiateResume(s)

RECURSIVE Run(_, _)
\* A synchronous run: from a call or a resumption to the next await.
Run(provs, s) ==
    IF s.mode = "done" THEN s
    ELSE IF s.mode = "yield" THEN suspend(s)
    ELSE CHOOSE r \in {Run(provs, nxt) : nxt \in {Step(provs, s)}} : TRUE

\* ------------------------------------------------------------------------
\* Operations
\* ------------------------------------------------------------------------

\* No call is in flight and every result has been taken.
Quiet == \A t \in Tasks : tasks[t].status = "idle"

FreeTask == CHOOSE t \in Tasks : tasks[t].status = "idle" /\ \A u \in 1..(t - 1) : tasks[u].status # "idle"

CanBuild == \A tok \in DOMAIN built : built[tok] < MaxBuilds

\* The run record of task t's chain in the current container state.
Chain(task, mode, tok, skip) ==
    [inst |-> instances, stk |-> resolutionStack, built |-> built,
     fr |-> task.fr, mode |-> mode, r |-> task.r,
     call |-> [tok |-> tok, skip |-> skip],
     raised |-> task.raised, got |-> task.got, failed |-> task.failed,
     log |-> task.log, level |-> logLevel, out |-> <<>>]

\* The task after the run that ended in s.
After(task, s) ==
    [task EXCEPT !.status = IF s.mode = "yield" THEN "waiting" ELSE s.mode,
                 !.fr = s.fr, !.r = s.r, !.raised = s.raised,
                 !.got = s.got, !.failed = s.failed, !.log = s.log]

\* The container and task t after the run that ended in s.
Commit(t, task, s) ==
    /\ instances' = s.inst
    /\ resolutionStack' = s.stk
    /\ built' = s.built
    /\ tasks' = [tasks EXCEPT ![t] = After(task, s)]
    /\ lastRes' = IF s.mode = "done" /\ task.op = "resolve" /\ s.r.ok
                  THEN [lastRes EXCEPT ![task.tok] =
                           [seen |-> TRUE, id |-> Id(s.r.val), built |-> s.built[task.tok]]]
                  ELSE lastRes

\* register caching a value only when it is truthy.
register_TruthyOnly(p) ==
    /\ p \in AppProviders(app)
    /\ LET key == getProviderKey(p) IN
       /\ providerMetadata' =
              IF (isClassProvider(p) \/ (~isValueProvider(p) /\ isFactoryProvider(p)))
                  /\ p.onDestroy # "none"
              THEN MapSet(providerMetadata, key, p.onDestroy)
              ELSE providerMetadata
       /\ instances' =
              IF ~isClassProvider(p) /\ isValueProvider(p) /\ ~Falsy(p.useValue)
              THEN MapSet(instances, key, p.useValue)
              ELSE instances
       /\ providers' = MapSet(providers, key, p)
       /\ lastRes' = [lastRes EXCEPT ![key] = NotSeen]
    /\ UNCHANGED <<app, logLevel, resolutionStack, weightCache, tasks, built>>

\* register dropping the cached weights.
register_Invalidating(p) ==
    /\ p \in AppProviders(app)
    /\ LET key == getProviderKey(p) IN
       /\ providerMetadata' =
              IF (isClassProvider(p) \/ (~isValueProvider(p) /\ isFactoryProvider(p)))
                  /\ p.onDestroy # "none"
              THEN MapSet(providerMetadata, key, p.onDestroy)
              ELSE providerMetadata
       /\ instances' =
              IF ~isClassProvider(p) /\ isValueProvider(p)
              THEN MapSet(instances, key, p.useValue)
              ELSE instances
       /\ providers' = MapSet(providers, key, p)
       /\ lastRes' = [lastRes EXCEPT ![key] = NotSeen]
    /\ weightCache' = <<>>
    /\ UNCHANGED <<app, logLevel, resolutionStack, tasks, built>>

\* Container.register
register(p) ==
    /\ p \in AppProviders(app)
    /\ LET key == getProviderKey(p) IN
       /\ providerMetadata' =
              IF (isClassProvider(p) \/ (~isValueProvider(p) /\ isFactoryProvider(p)))
                  /\ p.onDestroy # "none"
              THEN MapSet(providerMetadata, key, p.onDestroy)
              ELSE providerMetadata
       /\ instances' =
              IF ~isClassProvider(p) /\ isValueProvider(p)
              THEN MapSet(instances, key, p.useValue)
              ELSE instances
       /\ providers' = MapSet(providers, key, p)
       /\ lastRes' = [lastRes EXCEPT ![key] = NotSeen]
    /\ UNCHANGED <<app, logLevel, resolutionStack, weightCache, tasks, built>>

\* Container.clear
clear ==
    /\ providers' = <<>>
    /\ instances' = <<>>
    /\ resolutionStack' = <<>>
    /\ weightCache' = <<>>
    /\ providerMetadata' = <<>>
    /\ lastRes' = [tok \in DOMAIN lastRes |-> NotSeen]
    /\ UNCHANGED <<app, logLevel, tasks, built>>

\* Container.setLogLevel (lines 750-752)
setLogLevel(level) ==
    /\ level \in LogLevels
    /\ logLevel' = level
    /\ UNCHANGED <<app, providers, instances, resolutionStack, weightCache,
                   providerMetadata, tasks, built, lastRes>>

\* LazyRef.reset on a reference to tok
LazyRef_reset(tok) ==
    /\ tok \in AppTokens(app)
    /\ instances' = MapDelete(instances, tok)
    /\ lastRes' = [t \in DOMAIN lastRes |-> NotSeen]
    /\ UNCHANGED <<app, logLevel, providers, resolutionStack, weightCache, providerMetadata,
                   tasks, built>>

\* Container.resolve(tok, skip) is called: it runs to its first await.
resolve(t, tok, skip) ==
    /\ tasks[t].status = "idle"
    /\ tok \in AppTokens(app)
    /\ CanBuild
    /\ LET task == [IdleTask EXCEPT !.op = "resolve", !.tok = tok, !.skip = skip,
                                    !.startInst = instances, !.startProv = providers,
                                    !.startBuilt = built, !.prev = lastRes[tok]]
       IN Commit(t, task, Run(providers, Chain(task, "call", tok, skip)))
    /\ UNCHANGED <<app, logLevel, providers, weightCache, providerMetadata>>

\* The activation of resolveAll after its synchronous prologue.
resolveAllFrame(provs, byWeight) ==
    [Frame("resolveAll", "undefined", FALSE, NoProvider, "none", "undefined")
        EXCEPT !.sorted = [i \in 1..Len(byWeight.result) |-> byWeight.result[i].token],
               !.lazyTargets = LazyTargetsOf(provs)]

\* resolveAll from its entry to the sort (lines 1382-1385)
resolveAllEnter(s) ==
    log(s, Message("Resolving all providers in optimal order", "undefined"), "MINIMAL")

\* A call's first run: task is the call's fresh record.
Started(t, task) ==
    Commit(t, task, Run(providers, resolveAllEnter(Chain(task, "loop", "undefined", FALSE))))

\* resolveAll after getProvidersByWeight returned byWeight.
resolveAllSorted(t, byWeight) ==
    /\ weightCache' = byWeight.cache
    /\ Started(t, [IdleTask EXCEPT !.op = "resolveAll",
                                   !.fr = <<resolveAllFrame(providers, byWeight)>>,
                                   !.startInst = instances, !.startProv = providers,
                                   !.startBuilt = built])

\* Container.resolveAll is called: it sorts the providers by weight, collects
\* the lazy targets and runs to its first await.
resolveAll(t) ==
    /\ tasks[t].status = "idle"
    /\ CanBuild
    /\ resolveAllSorted(t, getProvidersByWeight(providers, weightCache))
    /\ UNCHANGED <<app, logLevel, providers, providerMetadata>>

\* The registry after register(p) (lines 847-883)
registerOne(reg, p) ==
    LET key == getProviderKey(p) IN
    [log(reg, Message(IF isClassProvider(p) THEN "Registering class provider"
                      ELSE IF isValueProvider(p) THEN "Registering value provider"
                      ELSE IF isFactoryProvider(p) THEN "Registering factory provider"
                      ELSE "Registering class",
                      key), "VERBOSE")
        EXCEPT !.providers = MapSet(@, key, p),
               !.instances = IF ~isClassProvider(p) /\ isValueProvider(p)
                             THEN MapSet(@, key, p.useValue)
                             ELSE @,
               !.providerMetadata =
                   IF (isClassProvider(p) \/ (~isValueProvider(p) /\ isFactoryProvider(p)))
                       /\ p.onDestroy # "none"
                   THEN MapSet(@, key, p.onDestroy)
                   ELSE @]

RECURSIVE registerAll(_, _)
\* for (const provider of flattenedProviders) this.register(provider)
registerAll(ps, reg) ==
    IF ps = <<>> THEN reg ELSE registerAll(Tail(ps), registerOne(reg, Head(ps)))

\* The registry of the container, with what a call on it writes to the
\* console.
Registry ==
    [providers |-> providers, instances |-> instances,
     providerMetadata |-> providerMetadata, level |-> logLevel, out |-> <<>>]

\* bootstrap from its entry to the register loop (lines 1491-1503)
bootstrapEnter(reg) ==
    log(log(log(reg, Message("Bootstrapping container", "undefined"), "MINIMAL"),
            Message("Flattening groups", "undefined"), "VERBOSE"),
        Message("Flattened items into providers", "undefined"), "VERBOSE")

\* bootstrap after its register loop: reg is the registry the loop left and
\* byWeight the order resolveAll computes from it.
bootstrapTask(list, reg, byWeight) ==
    [IdleTask EXCEPT
        !.op = "bootstrap", !.list = list,
        !.fr = <<Frame("bootstrap", "undefined", FALSE, NoProvider, "none", "undefined"),
                 resolveAllFrame(reg.providers, byWeight)>>,
        !.startInst = reg.instances, !.startProv = reg.providers,
        !.startBuilt = built]

\* The container and task t after bootstrap's run to its first await ended
\* in s.
bootstrapCommit(t, task, reg, byWeight, s) ==
    /\ providers' = reg.providers
    /\ providerMetadata' = reg.providerMetadata
    /\ weightCache' = byWeight.cache
    /\ instances' = s.inst
    /\ resolutionStack' = s.stk
    /\ built' = s.built
    /\ tasks' = [tasks EXCEPT ![t] = After(task, s)]
    /\ lastRes' = [tok \in DOMAIN lastRes |->
                       IF SetHas(ProviderKeys(flattenProviders(task.list)), tok)
                       THEN NotSeen ELSE lastRes[tok]]

bootstrapRun(t, task, reg, byWeight) ==
    bootstrapCommit(t, task, reg, byWeight,
                    Run(reg.providers,
                        resolveAllEnter([Chain(task, "loop", "undefined", FALSE)
                                            EXCEPT !.inst = reg.instances, !.out = reg.out])))

bootstrapRegistered(t, list, reg, byWeight) ==
    bootstrapRun(t, bootstrapTask(list, reg, byWeight), reg, byWeight)

bootstrapResolveAll(t, list, reg) ==
    bootstrapRegistered(t, list, reg, getProvidersByWeight(reg.providers, weightCache))

\* Container.bootstrap(list) is called: it flattens the groups, registers
\* every provider and calls resolveAll, which runs to its first await.
bootstrap(t, list) ==
    /\ tasks[t].status = "idle"
    /\ list \in AppBootstraps(app)
    /\ CanBuild
    /\ bootstrapResolveAll(t, list, registerAll(flattenProviders(list), bootstrapEnter(Registry)))
    /\ UNCHANGED <<app, logLevel>>

\* A number and a list of {token, weight} entries as results of a call.
Num(n) == [k |-> "num", v |-> n]

List(seq) == [k |-> "list", v |-> seq]

\* A synchronous call has returned r to the caller of task t.
Returned(t, op, tok, r) ==
    [tasks EXCEPT ![t] = [IdleTask EXCEPT !.status = "done", !.op = op, !.tok = tok,
                                          !.r = Ok(r), !.startProv = providers,
                                          !.startInst = instances,
                                          !.startCache = weightCache]]

\* Container.calculateWeight(tok) is called.
calculateWeightCalled(t, tok) ==
    /\ tasks[t].status = "idle"
    /\ tok \in AppTokens(app)
    /\ LET c == calculateWeight(providers, weightCache, tok) IN
       /\ weightCache' = c.cache
       /\ tasks' = Returned(t, "calculateWeight", tok, Num(c.weight))
    /\ UNCHANGED <<app, logLevel, providers, instances, resolutionStack, providerMetadata,
                   built, lastRes>>

\* Container.getProvidersByWeight() is called.
getProvidersByWeightCalled(t) ==
    /\ tasks[t].status = "idle"
    /\ LET c == getProvidersByWeight(providers, weightCache) IN
       /\ weightCache' = c.cache
       /\ tasks' = Returned(t, "getProvidersByWeight", "undefined", List(c.result))
    /\ UNCHANGED <<app, logLevel, providers, instances, resolutionStack, providerMetadata,
                   built, lastRes>>

\* Container.getDependencyGraph() is called.
getDependencyGraphCalled(t) ==
    /\ tasks[t].status = "idle"
    /\ LET c == getDependencyGraph(providers, weightCache) IN
       /\ weightCache' = c.cache
       /\ tasks' = Returned(t, "getDependencyGraph", "undefined", List(c.result))
    /\ UNCHANGED <<app, logLevel, providers, instances, resolutionStack, providerMetadata,
                   built, lastRes>>

\* Container.hasOnDestroy: the duck-typed check
hasOnDestroy(val) == val.k = "obj" /\ ClassMeta(val.cls).onDestroy # "none"

\* The tokens in insertion order instead of reversed.
teardownOrder_Forward(inst) == [i \in 1..Len(inst) |-> inst[i].key]

\* Array.from(this.instances.keys()).reverse() (line 1780)
teardownOrder(inst) == [i \in 1..Len(inst) |-> inst[Len(inst) + 1 - i].key]

\* destroy moves on to the next token: the end of the try block, or its catch.
nextToken(d) == [d EXCEPT !.fr.idx = @ + 1, !.fr.pc = "await", !.mode = "loop"]

\* destroy's catch block (lines 1801-1805) for a hook that threw `how`: the
\* message is built from error.message before logError is called, so an
\* error that is undefined makes the catch block throw and destroy reject.
destroyCatch(d, how, tok) ==
    IF how = "throwsUndefined" THEN [d EXCEPT !.mode = "fail"]
    ELSE nextToken(logError(d, Message("Error destroying", getTokenName(tok))))

\* if (this.hasOnDestroy(instance)) await instance.onDestroy() (lines 1796-1799)
instanceOnDestroy(d) ==
    LET tok == d.fr.sorted[d.fr.idx]
        instance == d.fr.inst
        called == [log(d, Message("Calling instance onDestroy", getTokenName(tok)), "VERBOSE")
                      EXCEPT !.log = Append(@, [e |-> "instanceOnDestroy", tok |-> tok,
                                                id |-> Id(instance)])]
    IN
    IF ~hasOnDestroy(instance) THEN nextToken(d)
    ELSE IF ClassMeta(instance.cls).onDestroy \notin {"none", "ok"}
    THEN destroyCatch(called, ClassMeta(instance.cls).onDestroy, tok)
    ELSE [called EXCEPT !.fr.pc = "awaitInstanceOnDestroy", !.mode = "yield"]

\* if (metadata?.onDestroy) await metadata.onDestroy(instance) (lines 1789-1793)
providerOnDestroy(d) ==
    LET tok == d.fr.sorted[d.fr.idx]
        instance == d.fr.inst
        called == [log(d, Message("Calling provider onDestroy", getTokenName(tok)), "VERBOSE")
                      EXCEPT !.log = Append(@, [e |-> "providerOnDestroy", tok |-> tok,
                                                id |-> Id(instance)])]
    IN
    IF ~MapHas(d.meta, tok) THEN instanceOnDestroy(d)
    ELSE IF MapGet(d.meta, tok) \notin {"none", "ok"}
    THEN destroyCatch(called, MapGet(d.meta, tok), tok)
    ELSE [called EXCEPT !.fr.pc = "awaitProviderOnDestroy", !.mode = "yield"]

\* One turn of destroy's loop up to the try block (lines 1782-1784): the
\* instance is read from the cache once and kept for both hooks.
destroyLoop(d) ==
    IF d.fr.idx > Len(d.fr.sorted)
    THEN [log(d, Message("Container destroyed successfully", "undefined"), "MINIMAL")
             EXCEPT !.mode = "done"]
    ELSE IF Falsy(MapGet(d.inst, d.fr.sorted[d.fr.idx])) THEN nextToken(d)
    ELSE providerOnDestroy([d EXCEPT !.fr.inst = MapGet(d.inst, d.fr.sorted[d.fr.idx])])

\* destroy continues after the await of a hook.
destroyResume(d) ==
    IF d.fr.pc = "awaitProviderOnDestroy" THEN instanceOnDestroy(d) ELSE nextToken(d)

RECURSIVE destroyRun(_)
\* destroy runs synchronously to its next await or to its end.
destroyRun(d) == IF d.mode = "loop" THEN destroyRun(destroyLoop(d)) ELSE d

\* The container and task t after a run of destroy: at the end of the loop
\* this.clear() empties the container (line 1809); a destroy that rejected
\* has not reached it.
Teardown(t, task, d) ==
    LET over == d.mode = "done" IN
    /\ providers' = IF over THEN <<>> ELSE providers
    /\ instances' = IF over THEN <<>> ELSE instances
    /\ resolutionStack' = IF over THEN <<>> ELSE resolutionStack
    /\ weightCache' = IF over THEN <<>> ELSE weightCache
    /\ providerMetadata' = IF over THEN <<>> ELSE providerMetadata
    /\ lastRes' = IF over THEN [tok \in DOMAIN lastRes |-> NotSeen] ELSE lastRes
    /\ tasks' = [tasks EXCEPT ![t] =
                    [task EXCEPT !.status = IF d.mode \in {"done", "fail"} THEN "done"
                                            ELSE "tearing",
                                 !.r = IF d.mode = "fail" THEN Err(MessageTypeError) ELSE @,
                                 !.raised = IF d.mode = "fail"
                                            THEN Thrown("throwsUndefined", "undefined", "undefined")
                                            ELSE @,
                                 !.fr = <<d.fr>>, !.log = d.log]]
    /\ UNCHANGED <<app, logLevel, built>>

\* The run record of destroy in the current container state: frame is its
\* activation and done what it did so far.
Destroying(frame, done) ==
    [inst |-> instances, meta |-> providerMetadata, fr |-> frame, log |-> done,
     mode |-> "loop", level |-> logLevel, out |-> <<>>]

\* destroy from its entry to the loop (lines 1773-1781)
destroyEnter(d) == log(d, Message("Destroying container", "undefined"), "MINIMAL")

\* destroy's activation: the tokens of the instances, last cached first.
destroyFrame ==
    [Frame("destroy", "undefined", FALSE, NoProvider, "none", "undefined")
        EXCEPT !.sorted = teardownOrder(instances)]

\* Container.destroy() is called: it runs to its first await.
destroy(t) ==
    /\ tasks[t].status = "idle"
    /\ LET frame == destroyFrame
           task == [IdleTask EXCEPT !.op = "destroy", !.startInst = instances,
                                    !.startProv = providers,
                                    !.startMeta = providerMetadata,
                                    !.startCache = weightCache]
       IN Teardown(t, task,
                   destroyRun(destroyEnter(Destroying(frame, <<>>))))

\* The hook destroy is awaiting in task t settles: destroy runs on.
destroyResumed(t) ==
    /\ tasks[t].status = "tearing"
    /\ Teardown(t, tasks[t],
                destroyRun(destroyResume(Destroying(tasks[t].fr[1], tasks[t].log))))

\* The await task t is suspended at settles: its chain runs to the next one.
resume(t) ==
    /\ tasks[t].status = "waiting"
    /\ Commit(t, tasks[t], Run(providers, Chain(tasks[t], "deliver", "undefined", FALSE)))
    /\ UNCHANGED <<app, logLevel, providers, weightCache, providerMetadata>>

\* The caller takes the result of the settled call of task t.
taken(t) ==
    /\ tasks[t].status = "done"
    /\ tasks' = [tasks EXCEPT ![t] = IdleTask]
    /\ UNCHANGED <<app, logLevel, providers, instances, resolutionStack, weightCache,
                   providerMetadata, built, lastRes>>

\* ------------------------------------------------------------------------
\* Specifications
\* ------------------------------------------------------------------------

\* One call at a time: every operation waits for the call in flight.
Next ==
    \/ \E p \in AppProviders(app) : Quiet /\ register(p)
    \/ Quiet /\ clear
    \/ \E tok \in AppTokens(app) : Quiet /\ LazyRef_reset(tok)
    \/ \E tok \in AppTokens(app), skip \in BOOLEAN : Quiet /\ resolve(FreeTask, tok, skip)
    \/ Quiet /\ resolveAll(FreeTask)
    \/ \E list \in AppBootstraps(app) : Quiet /\ bootstrap(FreeTask, list)
    \/ Quiet /\ destroy(FreeTask)
    \/ \E t \in Tasks : destroyResumed(t)
    \/ \E t \in Tasks : resume(t)
    \/ \E t \in Tasks : taken(t)

Spec == Init /\ [][Next]_vars

InitWeights ==
    /\ app \in WeightApps
    /\ providers = <<>>
    /\ instances = <<>>
    /\ resolutionStack = <<>>
    /\ weightCache = <<>>
    /\ providerMetadata = <<>>
    /\ logLevel = "VERBOSE"
    /\ tasks = [t \in Tasks |-> IdleTask]
    /\ built = [tok \in AllTokens \cup Classes |-> 0]
    /\ lastRes = [tok \in AllTokens \cup Classes |-> NotSeen]

\* Registrations interleaved with the synchronous weight calls.
NextWeights ==
    \/ \E p \in AppProviders(app) : Quiet /\ register(p)
    \/ Quiet /\ clear
    \/ \E tok \in AppTokens(app) : Quiet /\ calculateWeightCalled(FreeTask, tok)
    \/ Quiet /\ getProvidersByWeightCalled(FreeTask)
    \/ Quiet /\ getDependencyGraphCalled(FreeTask)
    \/ \E t \in Tasks : taken(t)

SpecWeights == InitWeights /\ [][NextWeights]_vars

InitConcurrent ==
    /\ app \in ConcurrentApps
    /\ providers = <<>>
    /\ instances = <<>>
    /\ resolutionStack = <<>>
    /\ weightCache = <<>>
    /\ providerMetadata = <<>>
    /\ logLevel = "VERBOSE"
    /\ tasks = [t \in Tasks |-> IdleTask]
    /\ built = [tok \in AllTokens \cup Classes |-> 0]
    /\ lastRes = [tok \in AllTokens \cup Classes |-> NotSeen]

\* Overlapping calls: resolve may be called while another call is
\* suspended at an await.
NextConcurrent ==
    \/ \E p \in AppProviders(app) : Quiet /\ register(p)
    \/ \E t \in Tasks, tok \in AppTokens(app), skip \in BOOLEAN : resolve(t, tok, skip)
    \/ \E t \in Tasks : resume(t)
    \/ \E t \in Tasks : taken(t)

SpecConcurrent == InitConcurrent /\ [][NextConcurrent]_vars

\* The applications that empty the container while a call is suspended.
OverlapApps == {"teardown", "hooks"}

InitOverlap ==
    /\ app \in OverlapApps
    /\ providers = <<>>
    /\ instances = <<>>
    /\ resolutionStack = <<>>
    /\ weightCache = <<>>
    /\ providerMetadata = <<>>
    /\ logLevel = "VERBOSE"
    /\ tasks = [t \in Tasks |-> IdleTask]
    /\ built = [tok \in AllTokens \cup Classes |-> 0]
    /\ lastRes = [tok \in AllTokens \cup Classes |-> NotSeen]

\* clear and destroy may be called, and resolve may be called, while a
\* resolve or destroy call is suspended at an await.
NextOverlap ==
    \/ \E p \in AppProviders(app) : Quiet /\ register(p)
    \/ \E t \in Tasks, tok \in AppTokens(app) : resolve(t, tok, FALSE)
    \/ clear
    \/ \E t \in Tasks : destroy(t)
    \/ \E t \in Tasks : destroyResumed(t)
    \/ \E t \in Tasks : resume(t)
    \/ \E t \in Tasks : taken(t)

SpecOverlap == InitOverlap /\ [][NextOverlap]_vars

\* The applications run at every log level.
LoggingApps == {"hooks", "teardown", "fail1", "lazydeps"}

InitLogging ==
    /\ app \in LoggingApps
    /\ providers = <<>>
    /\ instances = <<>>
    /\ resolutionStack = <<>>
    /\ weightCache = <<>>
    /\ providerMetadata = <<>>
    /\ logLevel = "VERBOSE"
    /\ tasks = [t \in Tasks |-> IdleTask]
    /\ built = [tok \in AllTokens \cup Classes |-> 0]
    /\ lastRes = [tok \in AllTokens \cup Classes |-> NotSeen]

\* One call at a time, the log level set at any moment.
NextLogging ==
    \/ \E level \in LogLevels : setLogLevel(level)
    \/ \E p \in AppProviders(app) : Quiet /\ register(p)
    \/ \E tok \in AppTokens(app), skip \in BOOLEAN : Quiet /\ resolve(FreeTask, tok, skip)
    \/ Quiet /\ resolveAll(FreeTask)
    \/ \E list \in AppBootstraps(app) : Quiet /\ bootstrap(FreeTask, list)
    \/ Quiet /\ destroy(FreeTask)
    \/ \E t \in Tasks : destroyResumed(t)
    \/ \E t \in Tasks : resume(t)
    \/ \E t \in Tasks : taken(t)

SpecLogging == InitLogging /\ [][NextLogging]_vars

InitLive ==
    /\ app \in LiveApps
    /\ providers = <<>>
    /\ instances = <<>>
    /\ resolutionStack = <<>>
    /\ weightCache = <<>>
    /\ providerMetadata = <<>>
    /\ logLevel = "VERBOSE"
    /\ tasks = [t \in Tasks |-> IdleTask]
    /\ built = [tok \in AllTokens \cup Classes |-> 0]
    /\ lastRes = [tok \in AllTokens \cup Classes |-> NotSeen]

\* Registrations and resolve calls, one call at a time.
NextLive ==
    \/ \E p \in AppProviders(app) : Quiet /\ register(p)
    \/ \E tok \in AppTokens(app), skip \in BOOLEAN : Quiet /\ resolve(FreeTask, tok, skip)
    \/ \E t \in Tasks : resume(t)
    \/ \E t \in Tasks : taken(t)

\* The continuation of a settled await is run, and a settled call is
\* observed by its caller.
SpecLive ==
    /\ InitLive /\ [][NextLive]_vars
    /\ WF_vars(\E t \in Tasks : resume(t))
    /\ WF_vars(\E t \in Tasks : taken(t))

\* ------------------------------------------------------------------------
\* Vocabulary of the properties
\* ------------------------------------------------------------------------

\* The ways a hook or a factory function throws.
Throwing == {"throws", "throwsUndefined"}

\* The value undefined, thrown.
ThrownUndefined == Thrown("throwsUndefined", "undefined", "undefined")

\* Task t holds the settled result of a resolve call nobody has taken yet:
\* the state right after the call.
Resolved(t) == tasks[t].status = "done" /\ tasks[t].op = "resolve"

Fulfilled(t) == Resolved(t) /\ tasks[t].r.ok

Rejected(t) == Resolved(t) /\ ~tasks[t].r.ok

\* The class a registered provider instantiates ("undefined" for a value or
\* factory provider).
ProviderClass(p) ==
    IF isClassProvider(p) THEN p.useClass
    ELSE IF isValueProvider(p) \/ isFactoryProvider(p) THEN "undefined"
    ELSE p.ctor

\* The tokens resolving tok requires eagerly, in order, under registry provs.
EagerDeps(provs, tok) ==
    IF MapHas(provs, tok)
    THEN LET p == MapGet(provs, tok) IN
         IF isClassProvider(p) THEN getClassDependencies(p.useClass)
         ELSE IF isValueProvider(p) THEN <<>>
         ELSE IF isFactoryProvider(p) THEN p.deps
         ELSE getClassDependencies(p.ctor)
    ELSE IF IsConstructor(tok) THEN getClassDependencies(tok) ELSE <<>>

\* Resolving tok needs no further resolution: it is cached in inst, or it is
\* a class without constructor parameters that needs no provider.
Immediate(provs, inst, tok) ==
    \/ MapHas(inst, tok)
    \/ /\ ~MapHas(provs, tok) /\ IsConstructor(tok)
       /\ ClassMeta(tok).paramTypes = <<>> /\ ~ClassMeta(tok).ctorThrows

RECURSIVE CycleWalk(_, _, _, _)
\* Follows, from tok, the first eager dependency that is not immediate: the
\* tokens visited followed by the first token met twice, or <<>> when the walk
\* ends without a repeat.
CycleWalk(provs, inst, tok, path) ==
    LET pending == SelectSeq(EagerDeps(provs, tok), LAMBDA d : ~Immediate(provs, inst, d)) IN
    IF SetHas(path, tok) THEN Append(path, tok)
    ELSE IF pending = <<>> THEN <<>>
    ELSE CycleWalk(provs, inst, pending[1], Append(path, tok))

Range(seq) == {seq[i] : i \in 1..Len(seq)}

\* The positions of class cls's constructor parameters that are lazy-marked.
LazyParams(cls) ==
    {i \in 1..Len(ClassMeta(cls).paramTypes) : IsLazyMarker(InjectAt(ClassMeta(cls), i))}

\* The token constructor parameter i of class cls is resolved from, eagerly.
EagerParamToken(cls, i) ==
    IF InjectAt(ClassMeta(cls), i).k # "undefined"
    THEN InjectAt(ClassMeta(cls), i).tok
    ELSE ClassMeta(cls).paramTypes[i]

EagerParams(cls) == (1..Len(ClassMeta(cls).paramTypes)) \ LazyParams(cls)

\* ------------------------------------------------------------------------
\* Singleton caching
\* ------------------------------------------------------------------------

\* C1: a token resolved successfully once resolves, on every later call with
\* no clear, reset or registration of it in between, to the same instance,
\* and is not constructed again; this holds for a registered token and for a
\* class constructor that was never registered alike.
C1_SingletonCaching ==
    \A t \in Tasks :
        (Fulfilled(t) /\ tasks[t].prev.seen) =>
            /\ Id(tasks[t].r.val) = tasks[t].prev.id
            /\ built[tasks[t].tok] = tasks[t].prev.built

\* The part of C1 the code keeps: a token that had a provider when the call
\* began.
C1_RegisteredSingleton ==
    \A t \in Tasks :
        (Fulfilled(t) /\ tasks[t].prev.seen /\ MapHas(tasks[t].startProv, tasks[t].tok)) =>
            /\ Id(tasks[t].r.val) = tasks[t].prev.id
            /\ built[tasks[t].tok] = tasks[t].prev.built

C1_RegisteredSingleton_Witness ==
    \E t \in Tasks :
        /\ Fulfilled(t) /\ tasks[t].prev.seen
        /\ MapHas(tasks[t].startProv, tasks[t].tok)
        /\ tasks[t].r.val.k = "obj"

\* ------------------------------------------------------------------------
\* Circular dependencies
\* ------------------------------------------------------------------------

\* C2: resolving a token whose eager dependencies lead back to a token already
\* being resolved, all of them registered and none cached, rejects with a Circular
\* dependency error whose chain is the resolution stack in push order followed
\* by the offending token, and caches none of the tokens of the chain.
C2_CircularDetected ==
    \A t \in Tasks :
        LET chain == CycleWalk(tasks[t].startProv, tasks[t].startInst, tasks[t].tok, <<>>) IN
        (/\ Resolved(t) /\ ~tasks[t].skip
         /\ chain # <<>>
         /\ \A tok \in Range(chain) :
                MapHas(tasks[t].startProv, tok) /\ ~MapHas(tasks[t].startInst, tok))
        => /\ ~tasks[t].r.ok
           /\ tasks[t].r.err.kind = "Circular dependency detected"
           /\ tasks[t].r.err.chain = TokenNames(chain)
           /\ \A tok \in Range(chain) : ~MapHas(instances, tok)

\* A cycle of three tokens, one of them a factory, was reported.
C2_Witness ==
    \E t \in Tasks :
        /\ Rejected(t) /\ ~tasks[t].skip
        /\ tasks[t].r.err.kind = "Circular dependency detected"
        /\ tasks[t].r.err.chain = <<"K1", "K2", "K3", "K1">>

\* ------------------------------------------------------------------------
\* Shared dependencies
\* ------------------------------------------------------------------------

RECURSIVE Requires(_, _, _)
\* The tokens resolving tok requires eagerly, directly or transitively
\* (n bounds the walk).
Requires(provs, tok, n) ==
    IF n = 0 THEN {}
    ELSE LET direct == Range(EagerDeps(provs, tok)) IN
         direct \cup UNION {Requires(provs, d, n - 1) : d \in direct}

ReachDepth == Cardinality(AllTokens \cup Classes)

Acyclic(provs, tok) ==
    \A d \in {tok} \cup Requires(provs, tok, ReachDepth) :
        d \notin Requires(provs, d, ReachDepth)

\* Nothing tok requires can throw or lacks a provider.
Sound(provs, tok) ==
    \A d \in {tok} \cup Requires(provs, tok, ReachDepth) :
        /\ MapHas(provs, d) \/ IsConstructor(d)
        /\ MapHas(provs, d) => /\ MapGet(provs, d).fthrows = "none"
                               /\ MapGet(provs, d).onInit \notin Throwing
        /\ LET cls == IF MapHas(provs, d) THEN ProviderClass(MapGet(provs, d)) ELSE d IN
           cls \in Classes =>
               /\ ~ClassMeta(cls).ctorThrows /\ ClassMeta(cls).onInit \notin Throwing
               /\ \A i \in EagerParams(cls) : EagerParamToken(cls, i) # "undefined"

\* Class cls reaches some token through two of its constructor parameters.
SharesDependency(provs, cls) ==
    \E i, j \in EagerParams(cls) :
        /\ i # j
        /\ LET via(k) == {EagerParamToken(cls, k)}
                             \cup Requires(provs, EagerParamToken(cls, k), ReachDepth)
           IN via(i) \cap via(j) # {}

\* Every eager constructor parameter of object o holds the cached instance of
\* its token.
HoldsCached(o) ==
    \A i \in EagerParams(o.cls) :
        /\ MapHas(instances, EagerParamToken(o.cls, i))
        /\ o.args[i] = ArgOf(MapGet(instances, EagerParamToken(o.cls, i)))

\* The class resolving tok instantiates under provs ("undefined" if none).
TargetClass(provs, tok) ==
    IF MapHas(provs, tok) THEN ProviderClass(MapGet(provs, tok))
    ELSE IF IsConstructor(tok) THEN tok ELSE "undefined"

\* C3: in an acyclic eager dependency graph where nothing throws, resolving a
\* class not yet cached that reaches a token S through two constructor parameters (twice
\* directly, or as a diamond) succeeds, and every parameter requiring S, of
\* the class and of the dependencies the call cached, holds the one cached
\* instance of S.
C3_SharedDependency ==
    \A t \in Tasks :
        LET provs == tasks[t].startProv
            tok == tasks[t].tok
            cls == TargetClass(provs, tok)
        IN (/\ Resolved(t) /\ cls \in Classes
            /\ ~MapHas(tasks[t].startInst, tok)
            /\ Acyclic(provs, tok) /\ Sound(provs, tok)
            /\ SharesDependency(provs, cls))
           => /\ tasks[t].r.ok
              /\ HoldsCached(tasks[t].r.val)
              /\ \A d \in Requires(provs, tok, ReachDepth) :
                     (MapHas(instances, d) /\ ~MapHas(tasks[t].startInst, d)
                      /\ MapGet(instances, d).k = "obj"
                      /\ MapGet(instances, d).via # "factory")
                     => HoldsCached(MapGet(instances, d))

\* The part of C3 the code keeps: every token the class requires has a
\* provider.
C3_RegisteredSharedDependency ==
    \A t \in Tasks :
        LET provs == tasks[t].startProv
            tok == tasks[t].tok
            cls == TargetClass(provs, tok)
        IN (/\ Resolved(t) /\ cls \in Classes
            /\ ~MapHas(tasks[t].startInst, tok)
            /\ Acyclic(provs, tok) /\ Sound(provs, tok)
            /\ SharesDependency(provs, cls)
            /\ \A d \in Requires(provs, tok, ReachDepth) : MapHas(provs, d))
           => /\ tasks[t].r.ok
              /\ HoldsCached(tasks[t].r.val)
              /\ \A d \in Requires(provs, tok, ReachDepth) :
                     (MapHas(instances, d) /\ ~MapHas(tasks[t].startInst, d)
                      /\ MapGet(instances, d).k = "obj"
                      /\ MapGet(instances, d).via # "factory")
                     => HoldsCached(MapGet(instances, d))

C3_RegisteredSharedDependency_Witness ==
    \E t \in Tasks :
        /\ Fulfilled(t) /\ tasks[t].tok = "Multi"
        /\ Keys(tasks[t].startProv) = {"Basic", "Dep", "Multi"}
        /\ tasks[t].startInst = <<>>
        /\ tasks[t].r.val.args = <<Ref("Basic", 1), Ref("Dep", 1), Ref("Basic", 1)>>

\* ------------------------------------------------------------------------
\* Lazy references
\* ------------------------------------------------------------------------

\* The token the lazy-marked constructor parameter i of class cls refers to.
LazyParamToken(cls, i) == InjectAt(ClassMeta(cls), i).tok

\* Class cls names token tok in a lazy-marked constructor parameter.
LazilyNeeds(cls, tok) ==
    cls \in Classes /\ \E i \in LazyParams(cls) : LazyParamToken(cls, i) = tok

\* A and B have providers under provs, and each depends on the other through
\* a lazy-marked parameter only.
LazyPair(provs, A, B) ==
    /\ MapHas(provs, A) /\ MapHas(provs, B)
    /\ LazilyNeeds(TargetClass(provs, A), B)
    /\ LazilyNeeds(TargetClass(provs, B), A)
    /\ B \notin Requires(provs, A, ReachDepth)
    /\ A \notin Requires(provs, B, ReachDepth)

\* The lazy handles the object o was constructed with.
Handles(o) ==
    IF o.k = "obj" /\ o.via # "factory"
    THEN {o.args[i] : i \in LazyParams(o.cls)}
    ELSE {}

\* C4: with A and B registered and depending on each other through lazy
\* parameters only, resolve(A) fulfils with an instance holding a lazy handle
\* to B, constructs no B and never has B on the resolution stack, and the
\* handle is unresolved unless B was cached already; once a resolve(B) has
\* fulfilled, the handle A holds is resolved and get() returns the instance
\* resolve(B) returned.
C4_LazyBreak ==
    \A t \in Tasks : \A B \in AppTokens(app) :
        LET A == tasks[t].tok IN
        /\ (Resolved(t) /\ LazyPair(tasks[t].startProv, A, B))
           => /\ tasks[t].r.ok
              /\ LazyRef(B) \in Handles(tasks[t].r.val)
              /\ built[B] = tasks[t].startBuilt[B]
              /\ ~MapHas(tasks[t].startInst, B) => ~LazyRef_isResolved(LazyRef(B))
        /\ (/\ tasks[t].op = "resolve" /\ tasks[t].status \in {"waiting", "done"}
            /\ LazyPair(tasks[t].startProv, A, B))
           => ~SetHas(resolutionStack, B)
        /\ (/\ Fulfilled(t) /\ LazyPair(tasks[t].startProv, B, A)
            /\ MapHas(instances, B) /\ LazyRef(A) \in Handles(MapGet(instances, B)))
           => /\ LazyRef_isResolved(LazyRef(A))
              /\ LazyRef_get(LazyRef(A)) = Ok(tasks[t].r.val)
              /\ LazyRef_tryGetValue(LazyRef(A)) = tasks[t].r.val

\* resolve(LB) has fulfilled while the cached LA holds its handle to LB.
C4_Witness ==
    \E t \in Tasks :
        /\ Fulfilled(t) /\ tasks[t].tok = "LB"
        /\ LazyPair(tasks[t].startProv, "LB", "LA")
        /\ MapHas(instances, "LA")
        /\ MapGet(instances, "LA").args = <<LazyRef("LB")>>
        /\ ~MapHas(tasks[t].startInst, "LB")
        /\ LazyRef_isResolved(LazyRef("LB"))

\* C5: with A and B registered and each holding a lazy reference to the
\* other, after resolve(A) alone dereferencing the handle A holds (get() or
\* .value) yields an instance of B.
C5_LazyValueResolves ==
    \A t \in Tasks :
        Fulfilled(t) =>
            \A ref \in Handles(tasks[t].r.val) :
                LazyPair(tasks[t].startProv, tasks[t].tok, ref.tok) => LazyRef_get(ref).ok

\* ------------------------------------------------------------------------
\* Value providers
\* ------------------------------------------------------------------------

\* What `await resolve(tok)` settles with when called in the current state
\* (a call that suspends has no outcome yet).
ResolveNow(tok) ==
    LET s == Run(providers, Chain(IdleTask, "call", tok, FALSE)) IN
    IF s.mode = "done" THEN s.r ELSE Err(NoErr)

\* v is available under token X without any call: the three ways of asking
\* all give exactly v.
Available(X, v) ==
    /\ getInstance(X) = v
    /\ getInstanceOrThrow(X) = Ok(v)
    /\ ResolveNow(X) = Ok(v)

\* C6: every step that registers a value provider {provide: X, useValue: v}
\* leaves getInstance(X), getInstanceOrThrow(X) and resolve(X) yielding
\* exactly v, the falsy values 0, false, '' and null included; and a resolve
\* of a token whose provider is a value provider fulfils with that value.
C6_Step ==
    \A p \in AppProviders(app) :
        (isValueProvider(p) /\ register(p)) => Available(getProviderKey(p), p.useValue)'

C6_ValueImmediacy ==
    /\ [][C6_Step]_vars
    /\ [](\A t \in Tasks :
            (Resolved(t) /\ MapHas(tasks[t].startProv, tasks[t].tok)
                /\ isValueProvider(MapGet(tasks[t].startProv, tasks[t].tok)))
            => tasks[t].r = Ok(MapGet(tasks[t].startProv, tasks[t].tok).useValue))

\* A falsy value is registered and cached, over an earlier cached value.
C6_Witness ==
    /\ MapHas(providers, "s:V") /\ Falsy(MapGet(providers, "s:V").useValue)
    /\ MapHas(instances, "s:V")
    /\ getInstance("s:V") = MapGet(providers, "s:V").useValue
    /\ \E t \in Tasks : Fulfilled(t) /\ tasks[t].tok = "s:V" /\ Falsy(tasks[t].r.val)

\* ------------------------------------------------------------------------
\* The instance cache
\* ------------------------------------------------------------------------

\* Every entry of the instance cache is still there, with the same value.
CachePreserved ==
    \A tok \in Keys(instances) :
        MapHas(instances', tok) /\ MapGet(instances', tok) = MapGet(instances, tok)

\* C7: no step of register, resolve or resolveAll changes or removes the
\* value cached for a token.
C7_Step ==
    (\/ \E p \in AppProviders(app) : register(p)
     \/ \E t \in Tasks, tok \in AppTokens(app), skip \in BOOLEAN : resolve(t, tok, skip)
     \/ \E t \in Tasks : resolveAll(t)
     \/ \E t \in Tasks : resume(t))
    => CachePreserved

C7_CacheNeverChanges == [][C7_Step]_vars

\* The part of C7 the code keeps: the steps of resolve and resolveAll.
C7_ResolveStep ==
    (\/ \E t \in Tasks, tok \in AppTokens(app), skip \in BOOLEAN : resolve(t, tok, skip)
     \/ \E t \in Tasks : resolveAll(t)
     \/ \E t \in Tasks : resume(t))
    => CachePreserved

C7_ResolveKeepsCache == [][C7_ResolveStep]_vars

\* ------------------------------------------------------------------------
\* Failure of resolve
\* ------------------------------------------------------------------------

\* C8: a resolve(T) that rejects rejects with the first error thrown, as it
\* was thrown; T has no entry in the instance cache; the provider registry is
\* as it was when the call began; every entry the cache had then is still
\* there; and every dependency the call resolved and cached before the
\* failure is still cached, with the instance it resolved to.
C8_FailFast ==
    \A t \in Tasks :
        Rejected(t) =>
            /\ tasks[t].raised # NoErr
            /\ tasks[t].r = Err(tasks[t].raised)
            /\ ~MapHas(instances, tasks[t].tok)
            /\ providers = tasks[t].startProv
            /\ \A tok \in Keys(tasks[t].startInst) :
                   /\ MapHas(instances, tok)
                   /\ MapGet(instances, tok) = MapGet(tasks[t].startInst, tok)
            /\ \A g \in tasks[t].got :
                   g.cached => /\ MapHas(instances, g.tok)
                               /\ Id(MapGet(instances, g.tok)) = g.id

\* A resolve rejected by a hook of its second dependency, after its first
\* dependency had been constructed and cached for it.
C8_Witness ==
    \E t \in Tasks :
        /\ Rejected(t) /\ tasks[t].tok = "Wrap"
        /\ tasks[t].r.err.kind = "instance onInit threw"
        /\ ~MapHas(tasks[t].startInst, "Basic")
        /\ [tok |-> "Basic", id |-> Id(MapGet(instances, "Basic")), cached |-> TRUE]
               \in tasks[t].got

\* ------------------------------------------------------------------------
\* Init hooks
\* ------------------------------------------------------------------------

\* The hooks resolve runs on an instance of class cls built by a provider with
\* provider-level hook pInit through branch via, in order.
ExpectedHooks(via, pInit, cls) ==
    (IF via \in {"class", "factory"} /\ pInit # "none" THEN <<"providerOnInit">> ELSE <<>>)
    \o (IF ClassMeta(cls).onInit # "none" THEN <<"instanceOnInit">> ELSE <<>>)

\* C9: every instance a class, factory or bare-class provider has in the
\* cache, and every such instance resolve returned, has had the provider-level
\* onInit (if supplied) and then its own onInit (if it has one) run on it,
\* each exactly once and in that order; while a hook is pending the instance
\* is not in the cache.
C9_InitHookOrder ==
    /\ \A i \in 1..Len(instances) :
           LET o == instances[i].val IN
           (o.k = "obj" /\ o.via \in {"class", "factory", "plain"})
           => o.h = ExpectedHooks(o.via, o.pInit, o.cls)
    /\ \A t \in Tasks :
           (Fulfilled(t) /\ tasks[t].r.val.k = "obj"
               /\ tasks[t].r.val.via \in {"class", "factory", "plain"})
           => tasks[t].r.val.h = ExpectedHooks(tasks[t].r.val.via, tasks[t].r.val.pInit,
                                               tasks[t].r.val.cls)
    /\ \A t \in Tasks : \A i \in 1..Len(tasks[t].fr) :
           LET fr == tasks[t].fr[i] IN
           (fr.f = "resolve" /\ fr.inst.k = "obj"
               /\ fr.pc \in {"awaitProviderOnInit", "awaitInstanceOnInit"})
           => \A j \in 1..Len(instances) : Id(instances[j].val) # Id(fr.inst)

\* An instance built by a class provider is cached after both hooks ran.
C9_Witness ==
    \E i \in 1..Len(instances) :
        /\ instances[i].val.k = "obj" /\ instances[i].val.via = "class"
        /\ instances[i].val.h = <<"providerOnInit", "instanceOnInit">>

\* ------------------------------------------------------------------------
\* Bulk resolution
\* ------------------------------------------------------------------------

\* C10: resolveAll always fulfils, and when it does every registered token
\* whose resolution did not fail in it has a cached instance; with no failure
\* every registered token has one.
C10_BestEffortResolveAll ==
    \A t \in Tasks :
        (tasks[t].status = "done" /\ tasks[t].op = "resolveAll")
        => /\ tasks[t].r.ok
           /\ providers = tasks[t].startProv
           /\ \A tok \in Keys(providers) :
                  tok \notin tasks[t].failed => MapHas(instances, tok)
           /\ \A tok \in tasks[t].failed : tok \in Keys(providers)

\* What is registered for tok, or for something tok requires, throws the
\* value undefined: the factory function or an onInit hook.
ThrowsUndefined(provs, tok) ==
    \E d \in {tok} \cup Requires(provs, tok, ReachDepth) :
        \/ /\ MapHas(provs, d)
           /\ \/ MapGet(provs, d).fthrows = "throwsUndefined"
              \/ MapGet(provs, d).onInit = "throwsUndefined"
        \/ LET cls == IF MapHas(provs, d) THEN ProviderClass(MapGet(provs, d)) ELSE d IN
           cls \in Classes /\ ClassMeta(cls).onInit = "throwsUndefined"

\* The part of C10 the code keeps: a failure whose error has a message is
\* caught, and a resolveAll that fulfils leaves every registered token that
\* did not fail cached.  resolveAll rejects only with the TypeError of its
\* catch block, on a token that throws undefined.
C10_ErrorsCaught ==
    \A t \in Tasks :
        (tasks[t].status = "done" /\ tasks[t].op = "resolveAll")
        => /\ providers = tasks[t].startProv
           /\ \A tok \in tasks[t].failed : tok \in Keys(providers)
           /\ tasks[t].r.ok =>
                  \A tok \in Keys(providers) :
                      tok \notin tasks[t].failed => MapHas(instances, tok)
           /\ ~tasks[t].r.ok =>
                  /\ tasks[t].r.err = MessageTypeError
                  /\ \E tok \in tasks[t].failed : ThrowsUndefined(providers, tok)

\* resolveAll went on after a failure: a token later in the order was
\* resolved and cached by it.
C10_ErrorsCaught_Witness ==
    \E t \in Tasks :
        /\ tasks[t].status = "done" /\ tasks[t].op = "resolveAll"
        /\ tasks[t].failed = {"BadInit", "Wrap"}
        /\ MapHas(providers, "Basic")
        /\ MapIndex(providers, "BadInit") < MapIndex(providers, "Basic")
        /\ MapHas(instances, "Basic") /\ ~MapHas(tasks[t].startInst, "Basic")

\* ------------------------------------------------------------------------
\* Bulk resolution order
\* ------------------------------------------------------------------------

\* Task t holds the settled result of a resolveAll or bootstrap call.
BulkDone(t) == tasks[t].status = "done" /\ tasks[t].op \in {"resolveAll", "bootstrap"}

RECURSIVE GroupMembers(_, _)
\* The keys of the providers reachable through the member lists of group g.
GroupMembers(g, n) ==
    IF n = 0 THEN {}
    ELSE UNION {IF item.ctor # "undefined" /\ item.ctor \in Groups
                THEN GroupMembers(item.ctor, n - 1)
                ELSE {getProviderKey(item)} : item \in Range(GroupMeta(g).providers)}

GroupDepth == Cardinality(Groups)

RECURSIVE FlatDepSet(_, _)
\* A `deps` array with every group replaced by its own deps and its members.
FlatDepSet(deps, n) ==
    IF n = 0 THEN {}
    ELSE UNION {IF d \in Groups
                THEN FlatDepSet(GroupMeta(d).deps, n - 1) \cup GroupMembers(d, GroupDepth)
                ELSE {d} : d \in Range(deps)}

\* The non-lazy structural dependencies of the provider registered for tok:
\* its constructor dependencies and, for a class or factory provider, its
\* explicit deps.
StructuralDeps(provs, tok) ==
    IF ~MapHas(provs, tok) THEN {}
    ELSE LET p == MapGet(provs, tok) IN
         IF isClassProvider(p)
         THEN FlatDepSet(p.deps, GroupDepth + 1) \cup Range(getClassDependencies(p.useClass))
         ELSE IF isValueProvider(p) THEN {}
         ELSE IF isFactoryProvider(p) THEN FlatDepSet(p.deps, GroupDepth + 1)
         ELSE Range(getClassDependencies(p.ctor))

RECURSIVE StructuralReach(_, _, _)
StructuralReach(provs, tok, n) ==
    IF n = 0 THEN {}
    ELSE LET direct == StructuralDeps(provs, tok) \cup Range(EagerDeps(provs, tok)) IN
         direct \cup UNION {StructuralReach(provs, d, n - 1) : d \in direct}

\* No token of the registry reaches itself through non-lazy dependencies.
AcyclicRegistry(provs) ==
    \A tok \in Keys(provs) : tok \notin StructuralReach(provs, tok, ReachDepth)

\* Token d was in the instance cache when the i-th event of task t's call
\* happened.
CachedBefore(t, d, i) ==
    \/ MapHas(tasks[t].startInst, d)
    \/ \E j \in 1..(i - 1) : tasks[t].log[j].e = "set" /\ tasks[t].log[j].tok = d

\* Every provider of the registry resolved: nothing failed and all are cached.
AllResolved(t) ==
    /\ tasks[t].failed = {}
    /\ \A tok \in Keys(tasks[t].startProv) : MapHas(instances, tok)

\* The constructions of task t's call that began while a registered
\* structural dependency of theirs was not cached.
Premature(t) ==
    {i \in 1..Len(tasks[t].log) :
        /\ tasks[t].log[i].e = "new"
        /\ \E d \in StructuralDeps(tasks[t].startProv, tasks[t].log[i].tok) :
               MapHas(tasks[t].startProv, d) /\ ~CachedBefore(t, d, i)}

\* C11: during resolveAll or bootstrap on a registry that is acyclic apart
\* from lazy-broken cycles and whose providers all resolve, no provider is
\* constructed before every registered non-lazy structural dependency of it
\* (constructor dependencies, explicit deps with groups flattened) is cached.
C11_BulkOrdering ==
    \A t \in Tasks :
        (BulkDone(t) /\ AcyclicRegistry(tasks[t].startProv) /\ AllResolved(t)) =>
            Premature(t) = {}

\* The part of C11 the code keeps: the dependencies a constructor or a
\* factory function receives as arguments are cached before it runs.
C11_InjectedFirst ==
    \A t \in Tasks :
        (BulkDone(t) /\ AcyclicRegistry(tasks[t].startProv) /\ AllResolved(t)) =>
            \A i \in 1..Len(tasks[t].log) :
                tasks[t].log[i].e = "new" =>
                    \A d \in Range(EagerDeps(tasks[t].startProv, tasks[t].log[i].tok)) :
                        MapHas(tasks[t].startProv, d) => CachedBefore(t, d, i)

C11_InjectedFirst_Witness ==
    \E t \in Tasks :
        /\ BulkDone(t) /\ AcyclicRegistry(tasks[t].startProv) /\ AllResolved(t)
        /\ \E i \in 1..Len(tasks[t].log) :
               /\ tasks[t].log[i].e = "new"
               /\ \E d \in Range(EagerDeps(tasks[t].startProv, tasks[t].log[i].tok)) :
                      MapHas(tasks[t].startProv, d) /\ ~MapHas(tasks[t].startInst, d)

\* Some registered class names tok in a lazy-marked constructor parameter.
LazyTargeted(provs, tok) ==
    \E k \in Keys(provs) : LazilyNeeds(ProviderClass(MapGet(provs, k)), tok)

\* The positions in task t's log at which the bulk loop called resolve.
CallsAt(t) == {i \in 1..Len(tasks[t].log) : tasks[t].log[i].e = "call"}

\* The position in task t's log at which tok entered the cache (0: it did not).
SetAt(t, tok) ==
    IF \E i \in 1..Len(tasks[t].log) : tasks[t].log[i].e = "set" /\ tasks[t].log[i].tok = tok
    THEN CHOOSE i \in 1..Len(tasks[t].log) :
             tasks[t].log[i].e = "set" /\ tasks[t].log[i].tok = tok
    ELSE 0

\* Some non-lazy-targeted registered token depends on tok eagerly.
PulledEarly(provs, tok) ==
    \E n \in Keys(provs) :
        ~LazyTargeted(provs, n) /\ tok \in Requires(provs, n, ReachDepth)

\* C12 as the spec words it: of the tokens a resolveAll call resolved, every
\* lazy-targeted one entered the cache after every non-lazy-targeted one.
C12_LazyTargetsLast ==
    \A t \in Tasks :
        BulkDone(t) =>
            \A l, n \in Keys(tasks[t].startProv) :
                (/\ LazyTargeted(tasks[t].startProv, l)
                 /\ ~LazyTargeted(tasks[t].startProv, n)
                 /\ SetAt(t, l) > 0 /\ SetAt(t, n) > 0)
                    => SetAt(t, n) < SetAt(t, l)

\* C12: resolveAll calls resolve on the non-lazy-targeted registered tokens in
\* ascending weight order first and only then on the lazy-targeted ones in
\* ascending weight order, each token at most once and only when it is not
\* cached when its turn comes; when the call fulfils, every registered token
\* got such a call or is cached; and of the tokens that enter the cache
\* during the call, a lazy-targeted one that no non-lazy-targeted token
\* depends on eagerly enters it after every non-lazy-targeted one.
C12_TwoPassOrder ==
    \A t \in Tasks :
        BulkDone(t) =>
            LET provs == tasks[t].startProv
                events == tasks[t].log
            IN
            /\ \A i, j \in CallsAt(t) :
                   i < j =>
                       /\ ~(LazyTargeted(provs, events[i].tok) /\ ~LazyTargeted(provs, events[j].tok))
                       /\ (LazyTargeted(provs, events[i].tok) = LazyTargeted(provs, events[j].tok))
                              => MapGet(weightCache, events[i].tok) <= MapGet(weightCache, events[j].tok)
                       /\ events[i].tok # events[j].tok
            /\ \A i \in CallsAt(t) : MapHas(provs, events[i].tok) /\ ~CachedBefore(t, events[i].tok, i)
            /\ tasks[t].r.ok =>
                   \A k \in Keys(provs) :
                       \/ \E i \in CallsAt(t) : events[i].tok = k
                       \/ MapHas(instances, k)
            /\ \A l, n \in Keys(provs) :
                   (/\ LazyTargeted(provs, l) /\ ~PulledEarly(provs, l)
                    /\ ~LazyTargeted(provs, n)
                    /\ SetAt(t, l) > 0 /\ SetAt(t, n) > 0)
                       => SetAt(t, n) < SetAt(t, l)

\* A bulk call that resolved a non-lazy-targeted token in its first pass and a
\* lazy-targeted token in its second.
C12_Witness ==
    \E t \in Tasks :
        /\ BulkDone(t)
        /\ \E i, j \in CallsAt(t) :
               /\ i < j
               /\ ~LazyTargeted(tasks[t].startProv, tasks[t].log[i].tok)
               /\ LazyTargeted(tasks[t].startProv, tasks[t].log[j].tok)
               /\ SetAt(t, tasks[t].log[i].tok) > 0
               /\ SetAt(t, tasks[t].log[j].tok) > SetAt(t, tasks[t].log[i].tok)

\* ------------------------------------------------------------------------
\* Groups
\* ------------------------------------------------------------------------

\* Under provs, factory token f lists value token v in its deps, v's provider
\* lists group g in its deps, and m is a registered member of g.
Barrier(provs, f, v, g, m) ==
    /\ MapHas(provs, f) /\ MapHas(provs, v) /\ MapHas(provs, m)
    /\ isFactoryProvider(MapGet(provs, f)) /\ v \in Range(MapGet(provs, f).deps)
    /\ isValueProvider(MapGet(provs, v)) /\ g \in Range(MapGet(provs, v).deps)
    /\ g \in Groups /\ m \in GroupMembers(g, GroupDepth)

\* C13: when a value provider lists a group in its deps and a factory lists
\* that value token in its own deps, a resolveAll or bootstrap call has every
\* registered member of the group cached before it calls the factory function.
C13_BarrierOrder ==
    \A t \in Tasks :
        BulkDone(t) =>
            \A f, v, m \in Keys(tasks[t].startProv), g \in Groups :
                Barrier(tasks[t].startProv, f, v, g, m) =>
                    \A i \in 1..Len(tasks[t].log) :
                        (tasks[t].log[i].e = "new" /\ tasks[t].log[i].tok = f)
                            => CachedBefore(t, m, i)

\* A barrier whose order happened to hold: the members were listed first.
C13_HeldByListOrder ==
    \E t \in Tasks :
        /\ BulkDone(t)
        /\ \E f, v, m \in Keys(tasks[t].startProv), g \in Groups :
               /\ Barrier(tasks[t].startProv, f, v, g, m)
               /\ SetAt(t, m) > 0
               /\ \E i \in 1..Len(tasks[t].log) :
                      /\ tasks[t].log[i].e = "new" /\ tasks[t].log[i].tok = f
                      /\ SetAt(t, m) < i

\* ------------------------------------------------------------------------
\* Weights
\* ------------------------------------------------------------------------

\* Task t holds the result of a calculateWeight call nobody has taken yet.
Weighed(t) == tasks[t].status = "done" /\ tasks[t].op = "calculateWeight"

\* Task t holds the result of a getProvidersByWeight call.
Sorted(t) == tasks[t].status = "done" /\ tasks[t].op = "getProvidersByWeight"

RECURSIVE Weight(_, _, _)
\* The weight of tok as the spec defines it, path being the tokens above it.
Weight(provs, tok, path) ==
    IF tok \in path \/ StructuralDeps(provs, tok) = {} THEN 0
    ELSE 1 + SetMax({Weight(provs, d, path \cup {tok}) : d \in StructuralDeps(provs, tok)})

\* C14: on a fixed registry with an empty weight cache, calculateWeight(token)
\* returns 0 for a token that is unregistered, has a value provider or has no
\* non-lazy dependencies, and otherwise 1 + the maximum weight of its non-lazy
\* dependencies, one already on the current path counting 0; the result is at
\* most the number of registered providers (and the call returns, also when
\* eager dependencies form a cycle).
C14_WeightDefinition ==
    \A t \in Tasks :
        (Weighed(t) /\ tasks[t].startCache = <<>>) =>
            /\ tasks[t].r.ok
            /\ tasks[t].r.val.v = Weight(tasks[t].startProv, tasks[t].tok, {})
            /\ tasks[t].r.val.v \in 0..Len(tasks[t].startProv)
            /\ (\/ ~MapHas(tasks[t].startProv, tasks[t].tok)
                \/ isValueProvider(MapGet(tasks[t].startProv, tasks[t].tok)))
                   => tasks[t].r.val.v = 0

\* A weight of at least 2 computed on a registry with an eager cycle.
C14_Witness ==
    \E t \in Tasks :
        /\ Weighed(t) /\ tasks[t].startCache = <<>>
        /\ tasks[t].r.val.v >= 2
        /\ ~AcyclicRegistry(tasks[t].startProv)

\* A weight computed through a group listed in a provider's deps.
C14_GroupWitness ==
    \E t \in Tasks :
        /\ Weighed(t) /\ tasks[t].startCache = <<>>
        /\ tasks[t].r.val.v >= 2
        /\ MapHas(tasks[t].startProv, tasks[t].tok)
        /\ Range(MapGet(tasks[t].startProv, tasks[t].tok).deps) \cap Groups # {}

RECURSIVE DependsOn(_, _, _)
\* The tokens the dependency lists of the registered providers lead to from
\* tok, in at most n steps.
DependsOn(provs, tok, n) ==
    IF n = 0 THEN {}
    ELSE StructuralDeps(provs, tok)
             \cup UNION {DependsOn(provs, d, n - 1) : d \in StructuralDeps(provs, tok)}

\* What calculateWeight(tok) returns in the current state.
WeightNow(tok) == calculateWeight(providers, weightCache, tok).weight

\* C15 as the spec words it: after any register and calculateWeight calls, a
\* token weighs more than every token its non-lazy dependencies lead to,
\* every weight is a natural number and a value-provider token weighs 0.
C15_WeightMonotone ==
    \A a \in Keys(weightCache) :
        /\ \A b \in Keys(weightCache) :
               b \in DependsOn(providers, a, ReachDepth) => WeightNow(a) > WeightNow(b)
        /\ WeightNow(a) \in Nat
        /\ (MapHas(providers, a) /\ isValueProvider(MapGet(providers, a))) => WeightNow(a) = 0

\* The cached weight of tok is the one the current registry gives it.
Fresh(tok) == MapGet(weightCache, tok) = calculateWeight(providers, <<>>, tok).weight

\* No dependency list of the registry leads from a token back to it.
NoEagerCycle(provs) == \A tok \in Keys(provs) : tok \notin DependsOn(provs, tok, ReachDepth)

\* C15: every weight is a natural number; a weight that was computed on the
\* current registry is 0 for a value-provider token, and, when the non-lazy
\* dependency graph has no cycle, greater than the weight (computed on the
\* current registry) of every token the dependencies lead to.
C15_FreshWeightMonotone ==
    \A a \in Keys(weightCache) :
        /\ WeightNow(a) \in Nat
        /\ Fresh(a) =>
               /\ (MapHas(providers, a) /\ isValueProvider(MapGet(providers, a)))
                      => WeightNow(a) = 0
               /\ NoEagerCycle(providers) =>
                      \A b \in Keys(weightCache) :
                          (Fresh(b) /\ b \in DependsOn(providers, a, ReachDepth))
                              => WeightNow(a) > WeightNow(b)

\* Three weights of a chain, all cached, on an acyclic registry.
C15_Witness ==
    /\ NoEagerCycle(providers)
    /\ \E a, b, c \in Keys(weightCache) :
           /\ Fresh(a) /\ Fresh(b) /\ Fresh(c)
           /\ b \in StructuralDeps(providers, a) /\ c \in StructuralDeps(providers, b)
           /\ MapHas(providers, c)

\* C16: getProvidersByWeight returns exactly one {token, weight} entry per
\* registered token, its weight being what calculateWeight(token) returns,
\* ascending by weight whatever the registration order, tokens of equal
\* weight in registration order.
C16_ProvidersByWeight ==
    \A t \in Tasks :
        Sorted(t) =>
            LET list == tasks[t].r.val.v
                provs == tasks[t].startProv
            IN
            /\ Len(list) = Len(provs)
            /\ {list[i].token : i \in 1..Len(list)} = Keys(provs)
            /\ \A i \in 1..Len(list) :
                   /\ list[i].weight = WeightNow(list[i].token)
                   /\ list[i].weight =
                          IF MapHas(tasks[t].startCache, list[i].token)
                          THEN MapGet(tasks[t].startCache, list[i].token)
                          ELSE Weight(provs, list[i].token, {})
            /\ \A i, j \in 1..Len(list) :
                   i < j =>
                       /\ list[i].weight <= list[j].weight
                       /\ list[i].weight = list[j].weight
                              => MapIndex(provs, list[i].token) < MapIndex(provs, list[j].token)

\* A result that is not in registration order and holds two tokens of equal
\* weight.
C16_Witness ==
    \E t \in Tasks :
        /\ Sorted(t)
        /\ LET list == tasks[t].r.val.v IN
           /\ \E i, j \in 1..Len(list) :
                  i < j /\ list[i].weight = list[j].weight
           /\ \E i, j \in 1..Len(list) :
                  /\ i < j
                  /\ MapIndex(tasks[t].startProv, list[i].token)
                         > MapIndex(tasks[t].startProv, list[j].token)

\* Task t holds the settled result of a bootstrap call.
Booted(t) == tasks[t].status = "done" /\ tasks[t].op = "bootstrap"

\* The keys of the providers a bootstrap list holds, directly or through the
\* member lists of its groups.
ListedKeys(list) ==
    UNION {IF item.ctor # "undefined" /\ item.ctor \in Groups
           THEN GroupMembers(item.ctor, GroupDepth)
           ELSE {getProviderKey(item)} : item \in Range(list)}

\* C17: after bootstrap on a list with groups, possibly nested, every provider
\* listed directly or reachable through the groups' member lists is registered
\* and, unless its resolution failed, has a cached instance; no group class is
\* registered as a provider or present in the instance cache.
C17_GroupFlattening ==
    \A t \in Tasks :
        Booted(t) =>
            /\ tasks[t].r.ok
            /\ \A k \in ListedKeys(tasks[t].list) :
                   /\ MapHas(providers, k)
                   /\ k \notin tasks[t].failed => MapHas(instances, k)
            /\ \A g \in Groups : ~MapHas(providers, g) /\ ~MapHas(instances, g)

\* The part of C17 the code keeps: the listed providers and the members of
\* the groups are registered and no group class is, whatever bootstrap's
\* outcome; when bootstrap fulfils, each of them is cached unless its
\* resolution failed.  A bootstrap rejects when resolveAll does.
C17_FlattenedWhenFulfilled ==
    \A t \in Tasks :
        Booted(t) =>
            /\ \A k \in ListedKeys(tasks[t].list) :
                   /\ MapHas(providers, k)
                   /\ (tasks[t].r.ok /\ k \notin tasks[t].failed) => MapHas(instances, k)
            /\ \A g \in Groups : ~MapHas(providers, g) /\ ~MapHas(instances, g)
            /\ ~tasks[t].r.ok => tasks[t].r.err = MessageTypeError

\* A bootstrap of a list with a group nested in a group, every provider of
\* which resolved.
C17_FlattenedWhenFulfilled_Witness ==
    \E t \in Tasks :
        /\ Booted(t) /\ tasks[t].failed = {}
        /\ \E item \in Range(tasks[t].list) :
               /\ item.ctor \in Groups
               /\ \E inner \in Range(GroupMeta(item.ctor).providers) : inner.ctor \in Groups
        /\ Cardinality(ListedKeys(tasks[t].list)) >= 3
        /\ \A k \in ListedKeys(tasks[t].list) : MapHas(instances, k)

\* The constructor or factory arguments of a cached instance.
ArgsOf(val) == IF val.k = "obj" THEN Range(val.args) ELSE {}

\* C18: a group listed in a provider's deps only adds to the weight: resolving
\* never invokes the group's constructor, and no cached instance was built
\* with a group instance among its constructor or factory arguments.
C18_GroupOnlyWeighs ==
    /\ \A t \in Tasks :
           \A i \in 1..Len(tasks[t].log) :
               tasks[t].log[i].e = "new" => tasks[t].log[i].tok \notin Groups
    /\ \A k \in Keys(instances) :
           \A arg \in ArgsOf(MapGet(instances, k)) :
               arg.k = "ref" => arg.tok \notin Groups

\* ------------------------------------------------------------------------
\* Teardown
\* ------------------------------------------------------------------------

\* Task t holds the settled result of a destroy call.
Destroyed(t) == tasks[t].status = "done" /\ tasks[t].op = "destroy"

\* The positions in task t's log of the teardown hooks invoked for tok.
TeardownAt(t, tok) ==
    {i \in 1..Len(tasks[t].log) :
        /\ tasks[t].log[i].e \in {"providerOnDestroy", "instanceOnDestroy"}
        /\ tasks[t].log[i].tok = tok}

\* Cached token x holds, as a constructor or factory argument, the instance
\* that is cached for token k.
BuiltFrom(inst, x, k) ==
    \E arg \in ArgsOf(MapGet(inst, x)) : arg.k = "ref" /\ arg = Id(MapGet(inst, k))

\* C19: destroy visits the cached instances in the reverse of the order in
\* which they entered the cache: the teardown hooks of a token cached later
\* all run before those of a token cached earlier, so those of a provider run
\* before those of an eager dependency it was constructed from.
C19_ReverseTeardown ==
    \A t \in Tasks :
        Destroyed(t) =>
            \A a, b \in Keys(tasks[t].startInst) :
                /\ MapIndex(tasks[t].startInst, a) < MapIndex(tasks[t].startInst, b)
                       => \A i \in TeardownAt(t, b), j \in TeardownAt(t, a) : i < j
                /\ BuiltFrom(tasks[t].startInst, b, a)
                       => \A i \in TeardownAt(t, b), j \in TeardownAt(t, a) : i < j

\* A destroy that ran the hooks of a provider and of the dependency it was
\* built from.
C19_Witness ==
    \E t \in Tasks :
        /\ Destroyed(t)
        /\ \E a, b \in Keys(tasks[t].startInst) :
               /\ BuiltFrom(tasks[t].startInst, b, a)
               /\ TeardownAt(t, a) # {} /\ TeardownAt(t, b) # {}

\* The provider registered for tok declares an onDestroy hook.
HasProviderOnDestroy(provs, tok) ==
    /\ MapHas(provs, tok)
    /\ isClassProvider(MapGet(provs, tok)) \/ isFactoryProvider(MapGet(provs, tok))
    /\ MapGet(provs, tok).onDestroy # "none"

\* The positions in task t's log at which hook e was invoked for tok with val.
HookAt(t, e, tok, val) ==
    {i \in 1..Len(tasks[t].log) :
        tasks[t].log[i] = [e |-> e, tok |-> tok, id |-> Id(val)]}

\* C20: for every token with a cached instance, whatever its value, destroy
\* invokes the provider's onDestroy hook once with the instance if the
\* provider declares one, then the instance's own onDestroy once if it has
\* one, the provider's hook first.
C20_TeardownEach ==
    \A t \in Tasks :
        Destroyed(t) =>
            \A k \in Keys(tasks[t].startInst) :
                LET val == MapGet(tasks[t].startInst, k)
                    byProvider == HookAt(t, "providerOnDestroy", k, val)
                    byInstance == HookAt(t, "instanceOnDestroy", k, val)
                IN
                /\ HasProviderOnDestroy(tasks[t].startProv, k) => Cardinality(byProvider) = 1
                /\ hasOnDestroy(val) => Cardinality(byInstance) = 1
                /\ \A i \in byProvider, j \in byInstance : i < j

\* The part of C20 the code keeps, in a destroy that fulfils: a truthy
\* instance, and for the instance's own hook a provider hook that does not
\* throw.
C20_TruthyTeardown ==
    \A t \in Tasks :
        (Destroyed(t) /\ tasks[t].r.ok) =>
            \A k \in Keys(tasks[t].startInst) :
                LET val == MapGet(tasks[t].startInst, k)
                    byProvider == HookAt(t, "providerOnDestroy", k, val)
                    byInstance == HookAt(t, "instanceOnDestroy", k, val)
                IN
                ~Falsy(val) =>
                    /\ HasProviderOnDestroy(tasks[t].startProv, k) => Cardinality(byProvider) = 1
                    /\ (/\ hasOnDestroy(val)
                        /\ HasProviderOnDestroy(tasks[t].startProv, k)
                               => MapGet(tasks[t].startProv, k).onDestroy \notin Throwing)
                           => Cardinality(byInstance) = 1
                    /\ \A i \in byProvider, j \in byInstance : i < j

C20_TruthyTeardown_Witness ==
    \E t \in Tasks :
        /\ Destroyed(t)
        /\ \E k \in Keys(tasks[t].startInst) :
               /\ HookAt(t, "providerOnDestroy", k, MapGet(tasks[t].startInst, k)) # {}
               /\ HookAt(t, "instanceOnDestroy", k, MapGet(tasks[t].startInst, k)) # {}

\* ------------------------------------------------------------------------
\* Teardown failures
\* ------------------------------------------------------------------------

\* A teardown hook destroy invoked for token k in task t threw one of hows.
ThrewAs(t, k, hows) ==
    LET val == MapGet(tasks[t].startInst, k) IN
    \/ /\ HookAt(t, "providerOnDestroy", k, val) # {}
       /\ MapGet(tasks[t].startMeta, k) \in hows
    \/ /\ HookAt(t, "instanceOnDestroy", k, val) # {}
       /\ ClassMeta(val.cls).onDestroy \in hows

\* A teardown hook destroy invoked for token k in task t threw.
Threw(t, k) == ThrewAs(t, k, Throwing)

\* The teardown of the instance cached under k ran in task t: every hook
\* there is for it was invoked.
TornDown(t, k) ==
    LET val == MapGet(tasks[t].startInst, k) IN
    /\ MapHas(tasks[t].startMeta, k) => HookAt(t, "providerOnDestroy", k, val) # {}
    /\ hasOnDestroy(val) => HookAt(t, "instanceOnDestroy", k, val) # {}

\* The five maps and sets of the container are empty.
Emptied ==
    /\ providers = <<>> /\ instances = <<>> /\ resolutionStack = <<>>
    /\ weightCache = <<>> /\ providerMetadata = <<>>

\* C21: when the teardown of one instance throws, destroy still runs the
\* teardown of every other cached instance, still clears the container, and
\* fulfils.
C21_TeardownIsolation ==
    \A t \in Tasks :
        (Destroyed(t) /\ \E k \in Keys(tasks[t].startInst) : Threw(t, k))
        => /\ tasks[t].r.ok
           /\ Emptied
           /\ \A k \in Keys(tasks[t].startInst) : ~Threw(t, k) => TornDown(t, k)

\* The part of C21 the code keeps: hooks that throw an Error, and the other
\* instances that are truthy.
C21_TruthyIsolation ==
    \A t \in Tasks :
        (/\ Destroyed(t)
         /\ \E k \in Keys(tasks[t].startInst) : Threw(t, k)
         /\ \A k \in Keys(tasks[t].startInst) : ~ThrewAs(t, k, {"throwsUndefined"}))
        => /\ tasks[t].r.ok
           /\ Emptied
           /\ \A k \in Keys(tasks[t].startInst) :
                  (~Threw(t, k) /\ ~Falsy(MapGet(tasks[t].startInst, k))) => TornDown(t, k)

\* A destroy in which a hook threw before the hook of an instance visited
\* later was invoked.
C21_TruthyIsolation_Witness ==
    \E t \in Tasks :
        /\ Destroyed(t)
        /\ \E k, m \in Keys(tasks[t].startInst) :
               /\ Threw(t, k) /\ ~Threw(t, m)
               /\ \E i \in TeardownAt(t, k), j \in TeardownAt(t, m) : i < j

\* ------------------------------------------------------------------------
\* Full reset
\* ------------------------------------------------------------------------

\* The container answers like a new one: its maps and sets are empty, no
\* token of the application has an instance, none of its string tokens
\* resolves, and every weight is the one computed from the registry as it is
\* now.
Reset ==
    /\ Emptied
    /\ \A tok \in AppTokens(app) :
           /\ getInstance(tok) = Undefined
           /\ tok \in DOMAIN StringTokens => ResolveNow(tok) = Err(NoProviderError(tok))
           /\ calculateWeight(providers, weightCache, tok).weight
                  = calculateWeight(providers, <<>>, tok).weight

\* A step of clear, and a step that leaves a completed destroy.
C22_Step ==
    /\ clear => Reset'
    /\ (\E t \in Tasks : Destroyed(t))' => Reset'

\* C22: when clear() returns, and when destroy() has completed, whether or
\* not a teardown hook threw, the provider registry, the instance cache, the
\* resolution stack, the weight cache and the stored destroy hooks are empty.
C22_FullReset == [][C22_Step]_vars

\* A step of clear, and a step that leaves a fulfilled destroy.
C22_FulfilledStep ==
    /\ clear => Reset'
    /\ (\E t \in Tasks : Destroyed(t) /\ tasks[t].r.ok)' => Reset'

\* The part of C22 the code keeps: the container is reset when clear()
\* returns and when destroy() fulfils.  A destroy whose hook throws the value
\* undefined rejects with the TypeError of its catch block and leaves the
\* container as it was.
C22_ResetWhenFulfilled == [][C22_FulfilledStep]_vars

\* A destroy that rejects has changed nothing in the container.
C22_RejectedStep ==
    \A t \in Tasks :
        (~Destroyed(t) /\ (Destroyed(t) /\ ~tasks[t].r.ok)')
        => /\ tasks'[t].r.err = MessageTypeError
           /\ UNCHANGED <<providers, instances, resolutionStack, weightCache,
                          providerMetadata>>

C22_RejectedUntouched == [][C22_RejectedStep]_vars

\* A destroy in which a hook threw has completed on a container that had
\* providers under string tokens, cached instances and cached weights.
C22_ResetWhenFulfilled_Witness ==
    \E t \in Tasks :
        /\ Destroyed(t)
        /\ \E k \in Keys(tasks[t].startInst) : Threw(t, k)
        /\ \E k \in Keys(tasks[t].startProv) : k \in DOMAIN StringTokens
        /\ tasks[t].startCache # <<>>
        /\ Reset

\* ------------------------------------------------------------------------
\* Synchronous accessors
\* ------------------------------------------------------------------------

NotResolvedYet(tok) == Err(UserError("Instance not resolved yet", tok))

\* C24: in every state and for every token, getInstanceOrThrow and
\* LazyRef.get()/value throw 'Instance not resolved yet' exactly when the
\* token has no entry in the instance cache and else return the cached value,
\* getInstance and tryGetValue return the cached value or undefined, and
\* LazyRef.isResolved() is true exactly when the token has an entry.
C24_AccessorPresence ==
    \A tok \in AppTokens(app) :
        /\ getInstanceOrThrow(tok) =
               IF MapHas(instances, tok) THEN Ok(MapGet(instances, tok))
               ELSE NotResolvedYet(tok)
        /\ LazyRef_get(LazyRef(tok)) = getInstanceOrThrow(tok)
        /\ getInstance(tok) = MapGet(instances, tok)
        /\ LazyRef_tryGetValue(LazyRef(tok)) = MapGet(instances, tok)
        /\ LazyRef_isResolved(LazyRef(tok)) <=> MapHas(instances, tok)

\* The part of C24 the code keeps: isResolved() is true exactly when the
\* token has an entry whose value is not undefined.
C24_DefinedPresence ==
    \A tok \in AppTokens(app) :
        /\ getInstanceOrThrow(tok) =
               IF MapHas(instances, tok) THEN Ok(MapGet(instances, tok))
               ELSE NotResolvedYet(tok)
        /\ LazyRef_get(LazyRef(tok)) = getInstanceOrThrow(tok)
        /\ getInstance(tok) = MapGet(instances, tok)
        /\ LazyRef_tryGetValue(LazyRef(tok)) = MapGet(instances, tok)
        /\ LazyRef_isResolved(LazyRef(tok))
               <=> (MapHas(instances, tok) /\ MapGet(instances, tok) # Undefined)

\* A factory that returned undefined has its result cached, next to a cached
\* null.
C24_DefinedPresence_Witness ==
    /\ MapHas(instances, "s:U") /\ MapGet(instances, "s:U") = Undefined
    /\ MapHas(instances, "s:N") /\ LazyRef_isResolved(LazyRef("s:N"))
    /\ getInstanceOrThrow("s:U") = Ok(Undefined)

\* ------------------------------------------------------------------------
\* The resolution stack
\* ------------------------------------------------------------------------

\* Task t is a top-level resolve call suspended at an await.
Suspended(t) == tasks[t].op = "resolve" /\ tasks[t].status = "waiting"

\* The tokens of the resolve activations of a chain that pushed their token
\* and satisfy keep, outermost first.
ChainTokens(fr, keep(_)) ==
    LET on == SelectSeq(fr, LAMBDA f : f.f = "resolve" /\ ~f.skip /\ keep(f))
    IN [i \in 1..Len(on) |-> on[i].tok]

\* C26: at every suspension point of a top-level resolve call the resolution
\* stack holds exactly the tokens whose resolution has started and not yet
\* finished on the call chain, for registered providers and for unregistered
\* class constructors alike.
C26_StackAccuracy ==
    \A t \in Tasks :
        Suspended(t) => resolutionStack = ChainTokens(tasks[t].fr, LAMBDA f : TRUE)

\* The part of C26 the code keeps: the tokens that have a provider.
C26_RegisteredStack ==
    \A t \in Tasks :
        Suspended(t) =>
            resolutionStack = ChainTokens(tasks[t].fr, LAMBDA f : f.branch # "unregistered")

\* A call is suspended three resolutions deep.
C26_RegisteredStack_Witness ==
    \E t \in Tasks : Suspended(t) /\ Len(resolutionStack) = 3

\* C27: once a top-level resolve call has settled, fulfilled or rejected, with
\* no other call in flight, the resolution stack is empty, and so it is
\* whenever the next call begins.
C27_StackRestored ==
    /\ \A t \in Tasks : Resolved(t) => resolutionStack = <<>>
    /\ Quiet => resolutionStack = <<>>

\* A resolve rejected three resolutions deep, or by a hook of a dependency,
\* has left the stack empty.
C27_Witness ==
    \E t \in Tasks :
        /\ Rejected(t) /\ resolutionStack = <<>>
        /\ \/ Len(tasks[t].r.err.chain) = 4
           \/ tasks[t].tok = "Wrap" /\ tasks[t].r.err.kind = "instance onInit threw"

\* ------------------------------------------------------------------------
\* Unregistered constructors
\* ------------------------------------------------------------------------

\* Task t is a settled resolve of a class constructor that had neither a
\* provider nor a cached instance when the call began.
Unregistered(t) ==
    /\ Resolved(t) /\ IsConstructor(tasks[t].tok)
    /\ ~MapHas(tasks[t].startProv, tasks[t].tok)
    /\ ~MapHas(tasks[t].startInst, tasks[t].tok)

\* Object o was constructed from the instances resolved for the parameters of
\* its class: the cached instance of the parameter's token, a construction
\* for that token when it is not cached, a lazy handle for a lazy-marked
\* parameter.
BuiltFromResolved(o) ==
    /\ Len(o.args) = Len(ClassMeta(o.cls).paramTypes)
    /\ \A i \in LazyParams(o.cls) : o.args[i] = LazyRef(LazyParamToken(o.cls, i))
    /\ \A i \in EagerParams(o.cls) :
           LET d == EagerParamToken(o.cls, i) IN
           IF MapHas(instances, d) THEN o.args[i] = ArgOf(MapGet(instances, d))
           ELSE o.args[i] \in {Ref(d, n) : n \in 1..built[d]}

\* C29: resolving a class constructor that was never registered behaves like
\* resolving a registered bare class: the class is instantiated with its
\* resolved dependencies, and its own onInit, if it has one, has run exactly
\* once when resolve returns the instance.
C29_UnregisteredFlow ==
    \A t \in Tasks :
        (Unregistered(t) /\ tasks[t].r.ok)
        => /\ tasks[t].r.val.k = "obj" /\ tasks[t].r.val.cls = tasks[t].tok
           /\ BuiltFromResolved(tasks[t].r.val)
           /\ tasks[t].r.val.h = ExpectedHooks("plain", "none", tasks[t].tok)

\* The part of C29 the code keeps: the instantiation.
C29_UnregisteredInstantiated ==
    \A t \in Tasks :
        (Unregistered(t) /\ tasks[t].r.ok)
        => /\ tasks[t].r.val.k = "obj" /\ tasks[t].r.val.cls = tasks[t].tok
           /\ BuiltFromResolved(tasks[t].r.val)

\* An unregistered class with three constructor parameters was resolved.
C29_UnregisteredInstantiated_Witness ==
    \E t \in Tasks :
        /\ Unregistered(t) /\ tasks[t].r.ok
        /\ Len(tasks[t].r.val.args) = 3

\* ------------------------------------------------------------------------
\* Order of dependency resolution
\* ------------------------------------------------------------------------

\* Token d and everything resolving it requires eagerly.
Sub(provs, d) == {d} \cup Requires(provs, d, ReachDepth)

\* The positions in task t's log of the constructions and cache entries made
\* for token x.
EventsOf(t, x) ==
    {i \in 1..Len(tasks[t].log) :
        tasks[t].log[i].tok = x /\ tasks[t].log[i].e \in {"new", "set"}}

\* The positions in task t's log at which a resolution of d was complete: it
\* entered the cache, after its init hooks, or, for a class without provider,
\* it was constructed.
CompletedAt(t, d) ==
    {i \in EventsOf(t, d) :
        tasks[t].log[i].e = IF MapHas(tasks[t].startProv, d) THEN "set" ELSE "new"}

\* Object o holds, position by position, the instances resolved for the deps
\* array of the factory provider p.
BuiltFromDeps(o, p) ==
    /\ Len(o.args) = Len(p.deps)
    /\ \A i \in 1..Len(p.deps) :
           IF MapHas(instances, p.deps[i])
           THEN o.args[i] = ArgOf(MapGet(instances, p.deps[i]))
           ELSE o.args[i] \in {Ref(p.deps[i], n) : n \in 1..built[p.deps[i]]}

\* Task t is a fulfilled resolve of a token that was not cached when the call
\* began and whose provider, or constructor, takes dependencies.
Assembled(t) ==
    /\ Fulfilled(t) /\ ~MapHas(tasks[t].startInst, tasks[t].tok)
    /\ tasks[t].r.val.k = "obj"
    /\ EagerDeps(tasks[t].startProv, tasks[t].tok) # <<>>

\* C30: the dependencies of a class (constructor parameters) or a factory
\* (deps array) are resolved one at a time in declared order: nothing is
\* constructed or cached for dependency j before the resolution of every
\* earlier dependency, init hooks included, was complete; and the resolved
\* values are passed positionally in that order.
C30_SequentialInOrder ==
    \A t \in Tasks :
        Assembled(t) =>
            LET provs == tasks[t].startProv
                D == EagerDeps(provs, tasks[t].tok)
                o == tasks[t].r.val
            IN
            /\ IF o.via = "factory" THEN BuiltFromDeps(o, MapGet(provs, tasks[t].tok))
               ELSE BuiltFromResolved(o)
            /\ \A i, j \in 1..Len(D) :
                   (i < j /\ ~MapHas(tasks[t].startInst, D[i])) =>
                       \A x \in Sub(provs, D[j])
                                   \ (Keys(tasks[t].startInst)
                                      \cup UNION {Sub(provs, D[k]) : k \in 1..(j - 1)}) :
                           \A e \in EventsOf(t, x) : \E c \in CompletedAt(t, D[i]) : c < e

\* A factory was called with the instances of its two dependencies, the
\* first of which has init hooks, both resolved by the call.
C30_Witness ==
    \E t \in Tasks :
        /\ Assembled(t) /\ tasks[t].tok = "s:O"
        /\ EventsOf(t, "s:H") # {} /\ EventsOf(t, "Basic") # {}
        /\ MapGet(instances, "s:H").h = <<"providerOnInit", "instanceOnInit">>

\* A class without provider was constructed from an injected token and a
\* parameter type, both resolved by the call.
C30_ClassWitness ==
    \E t \in Tasks :
        /\ Assembled(t) /\ tasks[t].tok = "Pair"
        /\ EventsOf(t, "s:H") # {} /\ EventsOf(t, "Basic") # {}

\* ------------------------------------------------------------------------
\* Termination of resolve
\* ------------------------------------------------------------------------

\* Task t is a resolve call that has not settled.
Pending(t) == tasks[t].op = "resolve" /\ tasks[t].status \notin {"idle", "done"}

\* Class cls takes itself as a constructor parameter.
SelfDependent(cls) == \E i \in EagerParams(cls) : EagerParamToken(cls, i) = cls

\* C23: every resolve call eventually settles, fulfilled or rejected, also
\* when a class constructor without provider depends on itself.
C23_Termination == \A t \in Tasks : Pending(t) ~> Resolved(t)

\* A resolve of a class that depends on itself rejects when the class is
\* registered, or when it is its own first parameter: with a circular
\* dependency error, unless an earlier parameter has no provider.
C23_DetectedCycle ==
    \A t \in Tasks :
        (/\ Resolved(t) /\ tasks[t].tok \in Classes /\ SelfDependent(tasks[t].tok)
         /\ (MapHas(tasks[t].startProv, tasks[t].tok) \/ tasks[t].tok = "Ouro"))
            => /\ ~tasks[t].r.ok
               /\ \/ tasks[t].r.err.kind = "Circular dependency detected"
                  \/ /\ tasks[t].r.err.kind = "No provider found"
                     /\ ~MapHas(tasks[t].startProv, tasks[t].r.err.tok)

C23_DetectedCycle_Witness ==
    \E t \in Tasks :
        /\ Resolved(t) /\ tasks[t].tok = "SelfRef"
        /\ MapHas(tasks[t].startProv, "SelfRef")
        /\ ~tasks[t].r.ok
        /\ tasks[t].r.err.kind = "Circular dependency detected"

\* ------------------------------------------------------------------------
\* Overlapping resolve calls
\* ------------------------------------------------------------------------

CircularlyRejected(t) ==
    Rejected(t) /\ tasks[t].r.err.kind = "Circular dependency detected"

\* The tokens of the chain a call for tok can be resolving.
OwnChain(provs, tok) == {getTokenName(d) : d \in {tok} \cup Requires(provs, tok, ReachDepth)}

\* C28: a circular dependency error is raised only for a genuine cycle: a
\* resolve call that overlaps another one is not rejected with it when what
\* its token requires has no eager cycle, and the chain of the error holds
\* only tokens of the call's own chain.
C28_GenuineCycles ==
    \A t \in Tasks :
        CircularlyRejected(t) =>
            /\ ~Acyclic(tasks[t].startProv, tasks[t].tok)
            /\ Range(tasks[t].r.err.chain) \subseteq OwnChain(tasks[t].startProv, tasks[t].tok)

\* ------------------------------------------------------------------------
\* Logging
\* ------------------------------------------------------------------------

\* A run record or registry without what it wrote to the console.
Silent(s) == [s EXCEPT !.level = "OFF", !.out = <<>>]

\* What register(p) leaves when the log level is level.
RegisterAt(level, p) == registerOne([Registry EXCEPT !.level = level], p)

\* The first run of resolve(tok, skip) when the log level is level.
ResolveAt(level, tok, skip) ==
    Run(providers, [Chain(IdleTask, "call", tok, skip) EXCEPT !.level = level])

\* The next run of the suspended call of task t when the log level is level.
ResumeAt(level, t) ==
    Run(providers, [Chain(tasks[t], "deliver", "undefined", FALSE) EXCEPT !.level = level])

\* The first run of resolveAll() when the log level is level.
ResolveAllAtSorted(level, byWeight) ==
    [cache |-> byWeight.cache,
     run |-> Run(providers,
                 resolveAllEnter(
                     [Chain([IdleTask EXCEPT !.fr = <<resolveAllFrame(providers, byWeight)>>],
                            "loop", "undefined", FALSE)
                         EXCEPT !.level = level]))]

ResolveAllAt(level) == ResolveAllAtSorted(level, getProvidersByWeight(providers, weightCache))

\* The first run of bootstrap(list) when the log level is level.
BootstrapAtSorted(level, list, reg, byWeight) ==
    [reg |-> reg, cache |-> byWeight.cache,
     run |-> Run(reg.providers,
                 resolveAllEnter(
                     [Chain(bootstrapTask(list, reg, byWeight), "loop", "undefined", FALSE)
                         EXCEPT !.inst = reg.instances, !.out = reg.out, !.level = level]))]

BootstrapAtRegistered(level, list, reg) ==
    BootstrapAtSorted(level, list, reg, getProvidersByWeight(reg.providers, weightCache))

BootstrapAt(level, list) ==
    BootstrapAtRegistered(level, list,
                          registerAll(flattenProviders(list),
                                      bootstrapEnter([Registry EXCEPT !.level = level])))

\* The first run of destroy() when the log level is level.
DestroyAt(level) ==
    destroyRun(destroyEnter([Destroying(destroyFrame, <<>>) EXCEPT !.level = level]))

\* The next run of the suspended destroy of task t when the log level is
\* level.
DestroyResumeAt(level, t) ==
    destroyRun(destroyResume([Destroying(tasks[t].fr[1], tasks[t].log) EXCEPT !.level = level]))

\* Two first runs of bootstrap differ at most in what they wrote to the
\* console.
SameBootstrap(a, b) ==
    /\ Silent(a.reg) = Silent(b.reg) /\ a.cache = b.cache /\ Silent(a.run) = Silent(b.run)

SameResolveAll(a, b) == a.cache = b.cache /\ Silent(a.run) = Silent(b.run)

\* C25: logging does not alter outcomes: in every state, whatever the log
\* level, each of register, resolve, resolveAll, bootstrap and destroy, and
\* the continuation of each suspended call, leaves the same registry,
\* instance cache, weights, hook invocations and results or errors; only
\* what is written to the console differs.
C25_LoggingIsInert ==
    \A level \in LogLevels :
        /\ \A p \in AppProviders(app) :
               Silent(RegisterAt(level, p)) = Silent(RegisterAt("OFF", p))
        /\ \A t \in Tasks :
               /\ tasks[t].status = "waiting"
                      => Silent(ResumeAt(level, t)) = Silent(ResumeAt("OFF", t))
               /\ tasks[t].status = "tearing"
                      => Silent(DestroyResumeAt(level, t)) = Silent(DestroyResumeAt("OFF", t))
        /\ Quiet =>
               /\ \A tok \in AppTokens(app), skip \in BOOLEAN :
                      Silent(ResolveAt(level, tok, skip)) = Silent(ResolveAt("OFF", tok, skip))
               /\ SameResolveAll(ResolveAllAt(level), ResolveAllAt("OFF"))
               /\ \A list \in AppBootstraps(app) :
                      SameBootstrap(BootstrapAt(level, list), BootstrapAt("OFF", list))
               /\ Silent(DestroyAt(level)) = Silent(DestroyAt("OFF"))

\* With logging turned off, instances with init hooks are cached and a
\* resolveAll that writes different lines at each level is about to run.
C25_Witness ==
    /\ logLevel = "OFF" /\ Quiet
    /\ \E tok \in Keys(instances) :
           MapGet(instances, tok).k = "obj" /\ MapGet(instances, tok).h # <<>>
    /\ \E tok \in Keys(providers) : ~MapHas(instances, tok)
    /\ ResolveAllAt("OFF").run.out = <<>>
    /\ ResolveAllAt("MINIMAL").run.out # <<>>
    /\ ResolveAllAt("VERBOSE").run.out # ResolveAllAt("MINIMAL").run.out

\* ------------------------------------------------------------------------
\* Weight memoization
\* ------------------------------------------------------------------------

\* In this step task t's call calculateWeight(tok) returned.
WeighedNow(t, tok) ==
    /\ tasks[t].status = "idle"
    /\ tasks'[t].status = "done" /\ tasks'[t].op = "calculateWeight" /\ tasks'[t].tok = tok

\* A step other than clear keeps the weight cached for tok and a
\* calculateWeight(tok) made in it returns that weight; register leaves the
\* whole cache as it is.
C31_Step ==
    /\ \A tok \in AppTokens(app) :
           (MapHas(weightCache, tok) /\ ~clear) =>
               /\ MapHas(weightCache', tok)
               /\ MapGet(weightCache', tok) = MapGet(weightCache, tok)
               /\ \A t \in Tasks :
                      WeighedNow(t, tok) => tasks'[t].r.val = Num(MapGet(weightCache, tok))
    /\ (\E p \in AppProviders(app) : register(p)) => weightCache' = weightCache

\* C31: once calculateWeight(token) has returned a value, every later
\* calculateWeight(token) returns that value until clear(), whatever is
\* registered in between; register never modifies the weight cache.
C31_WeightMemoized == [][C31_Step]_vars

\* calculateWeight returned the cached weight of a token whose weight,
\* computed from the registry as it is now, is another one.
C31_Witness ==
    \E t \in Tasks :
        /\ tasks[t].status = "done" /\ tasks[t].op = "calculateWeight"
        /\ MapHas(tasks[t].startCache, tasks[t].tok)
        /\ tasks[t].r.val = Num(MapGet(tasks[t].startCache, tasks[t].tok))
        /\ calculateWeight(providers, <<>>, tasks[t].tok).weight # tasks[t].r.val.v

\* ------------------------------------------------------------------------
\* Cycle-safe flattening of groups
\* ------------------------------------------------------------------------

\* The number of positions of list s that hold k.
Times(s, k) == Cardinality({i \in 1..Len(s) : s[i] = k})

RECURSIVE MemberGroups(_, _)
\* The groups reached from the tokens toks through member lists.
MemberGroups(toks, n) ==
    IF n = 0 THEN {}
    ELSE UNION {IF d \in Groups
                THEN {d} \cup MemberGroups(Range(ProviderKeys(GroupMeta(d).providers)), n - 1)
                ELSE {} : d \in toks}

RECURSIVE DepGroups(_, _)
\* The groups reached from the tokens toks through deps and member lists.
DepGroups(toks, n) ==
    IF n = 0 THEN {}
    ELSE UNION {IF d \in Groups
                THEN {d} \cup DepGroups(Range(GroupMeta(d).deps)
                                        \cup Range(ProviderKeys(GroupMeta(d).providers)), n - 1)
                ELSE {} : d \in toks}

\* The number of places that list k: the positions of the list top and of
\* the member lists (and, for deps, the deps lists) of the groups gs.
Listings(k, top, gs, withDeps) ==
    Times(top, k)
    + Cardinality({x \in gs \X (1..Cardinality(Classes)) :
                     /\ x[2] <= Len(GroupMeta(x[1]).providers)
                     /\ getProviderKey(GroupMeta(x[1]).providers[x[2]]) = k})
    + Cardinality({x \in gs \X (1..Cardinality(Classes)) :
                     /\ withDeps
                     /\ x[2] <= Len(GroupMeta(x[1]).deps)
                     /\ GroupMeta(x[1]).deps[x[2]] = k})

\* out is a flattening of top over the groups gs: every non-group entry
\* listed at the top or in a group of gs appears, and no entry appears more
\* often than it is listed, so no group was expanded twice.
FlattenedOnce(out, top, gs, withDeps) ==
    /\ \A k \in Range(out) : k \notin Groups /\ Times(out, k) <= Listings(k, top, gs, withDeps)
    /\ \A k \in Classes \cup DOMAIN StringTokens :
           (k \notin Groups /\ Listings(k, top, gs, withDeps) > 0) => k \in Range(out)

\* Task t holds a settled bootstrap call whose list reaches a group that
\* reaches itself.
BootstrappedCycle(t) ==
    /\ tasks[t].status = "done" /\ tasks[t].op = "bootstrap"
    /\ \E g \in MemberGroups(Range(ProviderKeys(tasks[t].list)), GroupDepth) :
           g \in DepGroups(Range(GroupMeta(g).deps)
                           \cup Range(ProviderKeys(GroupMeta(g).providers)), GroupDepth)

\* The provider list of a bootstrap call is flattened with each group
\* expanded once, also when a group reaches itself.
C32_ProvidersFlattenedOnce ==
    \A t \in Tasks :
        (tasks[t].status = "done" /\ tasks[t].op = "bootstrap") =>
            FlattenedOnce(ProviderKeys(flattenProviders(tasks[t].list)),
                          ProviderKeys(tasks[t].list),
                          MemberGroups(Range(ProviderKeys(tasks[t].list)), GroupDepth), FALSE)

C32_ProvidersFlattenedOnce_Witness ==
    \E t \in Tasks :
        /\ BootstrappedCycle(t)
        /\ Range(ProviderKeys(flattenProviders(tasks[t].list))) \subseteq Keys(providers)

\* C32: flattening a provider list or a deps list terminates for any group
\* graph, a group that reaches itself included; within one flatten call each
\* group is expanded at most once and every reachable non-group entry appears
\* in the output.  Checked on the list of every settled bootstrap call and on
\* the deps list of every provider that call registered and weighed.
C32_CycleSafeFlattening ==
    \A t \in Tasks :
        (tasks[t].status = "done" /\ tasks[t].op = "bootstrap") =>
            /\ FlattenedOnce(ProviderKeys(flattenProviders(tasks[t].list)),
                             ProviderKeys(tasks[t].list),
                             MemberGroups(Range(ProviderKeys(tasks[t].list)), GroupDepth), FALSE)
            /\ \A p \in Range(flattenProviders(tasks[t].list)) :
                   (isFactoryProvider(p) \/ isClassProvider(p)) =>
                       FlattenedOnce(flattenDeps(p.deps), p.deps,
                                     DepGroups(Range(p.deps), GroupDepth), TRUE)

\* ------------------------------------------------------------------------
\* Teardown hooks that throw
\* ------------------------------------------------------------------------

\* In the destroy call of task t the provider-level onDestroy hook of the
\* instance cached for k was invoked and threw.
ProviderHookThrew(t, k) ==
    /\ MapHas(tasks[t].startMeta, k) /\ MapGet(tasks[t].startMeta, k) \in Throwing
    /\ HookAt(t, "providerOnDestroy", k, MapGet(tasks[t].startInst, k)) # {}

\* C33: each teardown hook invocation is guarded on its own: when the
\* provider-level onDestroy hook of an instance throws during destroy, the
\* instance's own onDestroy method is still invoked.
C33_HooksGuardedApart ==
    \A t \in Tasks :
        Destroyed(t) =>
            \A k \in Keys(tasks[t].startInst) :
                (ProviderHookThrew(t, k) /\ hasOnDestroy(MapGet(tasks[t].startInst, k)))
                    => HookAt(t, "instanceOnDestroy", k, MapGet(tasks[t].startInst, k)) # {}

\* What the single try block gives in a destroy that fulfils: a hook that
\* throws ends the teardown of its own instance only, and the instances
\* cached before it are still torn down.
C33_LaterTokensTornDown ==
    \A t \in Tasks :
        (Destroyed(t) /\ tasks[t].r.ok) =>
            \A k, j \in Keys(tasks[t].startInst) :
                (/\ ProviderHookThrew(t, k)
                 /\ MapIndex(tasks[t].startInst, j) < MapIndex(tasks[t].startInst, k)
                 /\ hasOnDestroy(MapGet(tasks[t].startInst, j))
                 /\ ~MapHas(tasks[t].startMeta, j))
                    => HookAt(t, "instanceOnDestroy", j, MapGet(tasks[t].startInst, j)) # {}

C33_LaterTokensTornDown_Witness ==
    \E t \in Tasks :
        /\ Destroyed(t)
        /\ \E k, j \in Keys(tasks[t].startInst) :
               /\ ProviderHookThrew(t, k)
               /\ MapIndex(tasks[t].startInst, j) < MapIndex(tasks[t].startInst, k)
               /\ HookAt(t, "instanceOnDestroy", j, MapGet(tasks[t].startInst, j)) # {}

\* ------------------------------------------------------------------------
\* Re-registration
\* ------------------------------------------------------------------------

\* val is what provider p produces: its value for a value provider, an
\* object of its class for a class provider or a bare class, an object the
\* factory function makes for a factory provider.
ProductOf(p, val) ==
    IF isClassProvider(p) THEN val.k = "obj" /\ val.cls = p.useClass
    ELSE IF isValueProvider(p) THEN val = p.useValue
    ELSE IF isFactoryProvider(p)
    THEN IF p.makes \in Classes THEN val.k = "obj" /\ val.cls = p.makes
         ELSE val = Prim(p.makes)
    ELSE val.k = "obj" /\ val.cls = p.ctor

\* The resolve call of task t settles in this step with a value.
FulfilledNow(t) ==
    /\ tasks[t].status # "done"
    /\ tasks'[t].status = "done" /\ tasks'[t].op = "resolve" /\ tasks'[t].r.ok

C34_Step ==
    /\ \A p \in AppProviders(app) :
           register(p) =>
               /\ MapGet(providers', getProviderKey(p)) = p
               /\ Cardinality({i \in 1..Len(providers') :
                                  providers'[i].key = getProviderKey(p)}) = 1
    /\ \A t \in Tasks :
           (FulfilledNow(t) /\ MapHas(tasks'[t].startProv, tasks'[t].tok))
               => ProductOf(MapGet(tasks'[t].startProv, tasks'[t].tok), tasks'[t].r.val)

\* C34: registering a provider for a token that already has one replaces the
\* previous provider, so the registry holds one provider per token, the
\* latest, and a resolve of the token issued afterwards yields the product of
\* the latest provider, whether or not an instance of the earlier provider
\* had been cached.
C34_ReRegistrationTakesEffect == [][C34_Step]_vars

\* What the code keeps: the registry holds the latest provider, a value
\* provider always takes effect, and a class or factory provider takes effect
\* when nothing was cached for the token.
C34_UncachedStep ==
    /\ \A p \in AppProviders(app) :
           register(p) => MapGet(providers', getProviderKey(p)) = p
    /\ \A t \in Tasks :
           (/\ FulfilledNow(t) /\ MapHas(tasks'[t].startProv, tasks'[t].tok)
            /\ \/ isValueProvider(MapGet(tasks'[t].startProv, tasks'[t].tok))
               \/ ~MapHas(tasks'[t].startInst, tasks'[t].tok))
               => ProductOf(MapGet(tasks'[t].startProv, tasks'[t].tok), tasks'[t].r.val)

C34_LatestWhenUncached == [][C34_UncachedStep]_vars

\* A resolve that returned the value of a value provider registered over a
\* provider that had already built an instance for the token.
C34_LatestWhenUncached_Witness ==
    \E t \in Tasks :
        /\ Fulfilled(t)
        /\ MapHas(tasks[t].startProv, tasks[t].tok)
        /\ isValueProvider(MapGet(tasks[t].startProv, tasks[t].tok))
        /\ built[tasks[t].tok] > 0
        /\ tasks[t].r.val = MapGet(tasks[t].startProv, tasks[t].tok).useValue

\* ------------------------------------------------------------------------
\* The dependency graph
\* ------------------------------------------------------------------------

\* Task t holds the result of a getDependencyGraph call.
Graphed(t) == tasks[t].status = "done" /\ tasks[t].op = "getDependencyGraph"

\* The names of the direct dependencies the weight of tok is computed from
\* under provs: none for a value provider.
WeighedNames(provs, tok) ==
    IF isValueProvider(MapGet(provs, tok)) THEN {}
    ELSE Range(TokenNames(WeightDeps(MapGet(provs, tok))))

\* C35: getDependencyGraph returns one entry per registered token, whose
\* weight equals calculateWeight(token) and whose dependencies are exactly the
\* names of the direct dependencies that weight was computed from; an entry
\* with an empty dependency list has weight 0.
C35_GraphMatchesWeights ==
    \A t \in Tasks :
        Graphed(t) =>
            LET graph == tasks[t].r.val.v IN
            /\ Len(graph) = Len(tasks[t].startProv)
            /\ \A tok \in Keys(tasks[t].startProv) :
                   /\ MapHas(graph, getTokenName(tok))
                   /\ MapGet(graph, getTokenName(tok)).weight
                          = calculateWeight(tasks[t].startProv, tasks[t].startCache, tok).weight
                   /\ Range(MapGet(graph, getTokenName(tok)).dependencies)
                          = WeighedNames(tasks[t].startProv, tok)
            /\ \A i \in 1..Len(graph) :
                   graph[i].val.dependencies = <<>> => graph[i].val.weight = 0

\* What the code keeps: an entry per registered token with the weight
\* calculateWeight gives, and for a bare class the names of the constructor
\* dependencies its weight was computed from.
C35_GraphOfBareClasses ==
    \A t \in Tasks :
        Graphed(t) =>
            LET graph == tasks[t].r.val.v IN
            /\ Len(graph) = Len(tasks[t].startProv)
            /\ \A tok \in Keys(tasks[t].startProv) :
                   /\ MapHas(graph, getTokenName(tok))
                   /\ MapGet(graph, getTokenName(tok)).weight
                          = calculateWeight(tasks[t].startProv, tasks[t].startCache, tok).weight
                   /\ MapGet(tasks[t].startProv, tok).ctor # "undefined"
                          => Range(MapGet(graph, getTokenName(tok)).dependencies)
                                 = WeighedNames(tasks[t].startProv, tok)

C35_GraphOfBareClasses_Witness ==
    \E t \in Tasks :
        /\ Graphed(t)
        /\ \E tok \in Keys(tasks[t].startProv) :
               /\ MapGet(tasks[t].startProv, tok).ctor # "undefined"
               /\ MapGet(tasks[t].r.val.v, getTokenName(tok)).weight = 2
               /\ Len(MapGet(tasks[t].r.val.v, getTokenName(tok)).dependencies) > 1

\* ------------------------------------------------------------------------
\* Visibility of instances
\* ------------------------------------------------------------------------

\* Object val went through every init hook it has: the onInit hook of the
\* provider that built it and its own onInit method, neither of which throws.
Initialised(val) ==
    /\ (val.via \in {"class", "factory"} /\ val.pInit # "none")
           => val.pInit = "ok" /\ "providerOnInit" \in Range(val.h)
    /\ hasOnInit(val)
           => ClassMeta(val.cls).onInit = "ok" /\ "instanceOnInit" \in Range(val.h)

\* A resolve call is suspended in an init hook of the object val.
InHook(val) ==
    \E t \in Tasks : \E i \in 1..Len(tasks[t].fr) :
        /\ tasks[t].fr[i].pc \in {"awaitProviderOnInit", "awaitInstanceOnInit"}
        /\ Id(tasks[t].fr[i].inst) = Id(val)

\* C36: an instance built by a class, factory or bare-class provider is in the
\* instance cache, where getInstance, getInstanceOrThrow and lazy references
\* see it, only after the provider-level onInit hook and its own onInit method
\* have completed without throwing.
C36_NoPartialInstance ==
    \A k \in Keys(instances) :
        MapGet(instances, k).k = "obj" =>
            /\ Initialised(MapGet(instances, k))
            /\ ~InHook(MapGet(instances, k))

\* An object is cached after both of its hooks ran, while the resolve that
\* builds another object from it is suspended in a hook of that one.
C36_Witness ==
    \E k \in Keys(instances) :
        /\ MapGet(instances, k).k = "obj"
        /\ MapGet(instances, k).h = <<"providerOnInit", "instanceOnInit">>
        /\ \E t \in Tasks : \E i \in 1..Len(tasks[t].fr) :
               /\ tasks[t].fr[i].pc \in {"awaitProviderOnInit", "awaitInstanceOnInit"}
               /\ ~MapHas(instances, tasks[t].fr[i].tok)
               /\ Id(MapGet(instances, k)) \in ArgsOf(tasks[t].fr[i].inst)

\* ------------------------------------------------------------------------
\* Teardown after re-registration
\* ------------------------------------------------------------------------

\* The positions in task t's log at which a provider-level onDestroy hook was
\* invoked for tok.
ProviderTeardownAt(t, tok) ==
    {i \in 1..Len(tasks[t].log) :
        tasks[t].log[i].e = "providerOnDestroy" /\ tasks[t].log[i].tok = tok}

\* C37: destroy invokes only provider-level onDestroy hooks of the provider
\* currently registered for a token: the hook of a provider that was
\* overwritten by one without an onDestroy hook is never invoked.
C37_CurrentHooksOnly ==
    \A t \in Tasks :
        Destroyed(t) =>
            \A k \in Keys(tasks[t].startInst) :
                ProviderTeardownAt(t, k) # {} => HasProviderOnDestroy(tasks[t].startProv, k)

\* What the code keeps: a provider-level hook is invoked only for a token that
\* has hook metadata, which register writes and only clear removes.
C37_RecordedHooksOnly ==
    \A t \in Tasks :
        Destroyed(t) =>
            \A k \in Keys(tasks[t].startInst) :
                ProviderTeardownAt(t, k) # {} => MapHas(tasks[t].startMeta, k)

C37_RecordedHooksOnly_Witness ==
    \E t \in Tasks :
        /\ Destroyed(t)
        /\ \E k \in Keys(tasks[t].startInst) :
               /\ ProviderTeardownAt(t, k) # {}
               /\ HasProviderOnDestroy(tasks[t].startProv, k)

\* ------------------------------------------------------------------------
\* Overlapping resolve calls
\* ------------------------------------------------------------------------

\* tok is registered with a class, factory or bare-class provider.
Constructed(provs, tok) == MapHas(provs, tok) /\ ~isValueProvider(MapGet(provs, tok))

\* The instances of tok that calls hold or the cache holds: what fulfilled
\* resolve calls for tok returned and what is cached for it.
HeldFor(tok) ==
    {Id(tasks[t].r.val) : t \in {u \in Tasks : Fulfilled(u) /\ tasks[u].tok = tok}}
        \cup {Id(MapGet(instances, k)) : k \in {x \in {tok} : MapHas(instances, x)}}

\* C40: for any interleaving of overlapping resolve calls on a registered
\* class or factory token, with or without the skipCircularCheck flag, the
\* provider's construction runs at most once while the container is not
\* cleared, and no resolve call returns an instance other than the cached one:
\* the calls and the cache hold one and the same instance.
C40_SingleConstruction ==
    \A tok \in AppTokens(app) :
        Constructed(providers, tok) => Cardinality(HeldFor(tok)) <= 1

\* The resolve activations of task t for tok.
ResolvingAt(t, tok) ==
    {i \in 1..Len(tasks[t].fr) : tasks[t].fr[i].f = "resolve" /\ tasks[t].fr[i].tok = tok}

\* What the code keeps: two calls are inside resolve for the same registered
\* token at once only when one of them bypasses the circular check.
C40_OverlapNeedsBypass ==
    \A t, u \in Tasks, tok \in AppTokens(app) :
        (/\ t # u /\ ResolvingAt(t, tok) # {} /\ ResolvingAt(u, tok) # {}
         /\ Constructed(providers, tok))
            => \E i \in ResolvingAt(t, tok) \cup ResolvingAt(u, tok) :
                   tasks[t].fr[i].skip \/ tasks[u].fr[i].skip

C40_OverlapNeedsBypass_Witness ==
    \E t, u \in Tasks, tok \in AppTokens(app) :
        /\ t # u /\ ResolvingAt(t, tok) # {} /\ ResolvingAt(u, tok) # {}
        /\ Constructed(providers, tok)

\* ------------------------------------------------------------------------
\* Emptying the container while calls are suspended
\* ------------------------------------------------------------------------

\* The destroy call of task t ends in this step: it clears the container.
DestroyEnds(t) ==
    /\ tasks[t].op = "destroy" /\ tasks[t].status = "tearing"
    /\ tasks'[t].op = "destroy" /\ tasks'[t].status = "done"

\* Token k was cached by a resolve call while the destroy call of task t was
\* suspended inside a teardown hook.
CachedMeanwhile(t, k) ==
    /\ MapHas(instances, k) /\ MapGet(instances, k).k = "obj"
    /\ \A j \in Keys(tasks[t].startInst) :
           Id(MapGet(tasks[t].startInst, j)) # Id(MapGet(instances, k))

C38_Step ==
    \A t \in Tasks :
        DestroyEnds(t) =>
            \A k \in AppTokens(app) :
                CachedMeanwhile(t, k) =>
                    /\ MapHas(providerMetadata, k)
                           => \E i \in 1..Len(tasks'[t].log) :
                                  tasks'[t].log[i] = [e |-> "providerOnDestroy", tok |-> k,
                                                      id |-> Id(MapGet(instances, k))]
                    /\ hasOnDestroy(MapGet(instances, k))
                           => \E i \in 1..Len(tasks'[t].log) :
                                  tasks'[t].log[i] = [e |-> "instanceOnDestroy", tok |-> k,
                                                      id |-> Id(MapGet(instances, k))]

\* C38: no instance is dropped by destroy without teardown: the provider-level
\* and instance-level onDestroy hooks of an instance that a resolve call
\* cached while destroy was suspended inside a teardown hook are invoked
\* before destroy clears the container.
C38_NoneDroppedUntorn == [][C38_Step]_vars

C38_SnapshotStep ==
    \A t \in Tasks :
        DestroyEnds(t) =>
            \A i \in 1..Len(tasks'[t].log) :
                \E j \in Keys(tasks[t].startInst) :
                    /\ tasks'[t].log[i].tok = j
                    /\ tasks'[t].log[i].id \in {Id(MapGet(tasks[t].startInst, j)),
                                                Id(MapGet(instances, j))}

\* What the code does: destroy tears down the tokens that were cached when it
\* was called, with the instance cached for each when its turn comes.
C38_SnapshotOnly == [][C38_SnapshotStep]_vars

\* A destroy call ended while the cache held an instance built after the
\* call had begun.
C38_SnapshotOnly_Witness ==
    \E t \in Tasks :
        /\ Destroyed(t)
        /\ tasks[t].log # <<>>
        /\ \E u \in Tasks :
               /\ Fulfilled(u) /\ tasks[u].r.val.k = "obj"
               /\ \A j \in Keys(tasks[t].startInst) :
                      Id(MapGet(tasks[t].startInst, j)) # Id(tasks[u].r.val)
               /\ \A i \in 1..Len(tasks[t].log) : tasks[t].log[i].id # Id(tasks[u].r.val)

\* A resolve call of task t that was in flight when clear or destroy emptied
\* the container: the registry it started from was not empty and is now.
Outlived(t) ==
    /\ tasks[t].op = "resolve" /\ tasks[t].status = "waiting"
    /\ tasks[t].startProv # <<>> /\ providers = <<>>

C39_Step ==
    \A t \in Tasks : (Outlived(t) /\ tasks'[t] # tasks[t]) => instances' = instances

\* C39: a resolve call that was in flight when clear or destroy emptied the
\* container does not write into the container afterwards: no step of such a
\* call changes the instance cache.
C39_NoWriteAfterClear == [][C39_Step]_vars

C39_RejectedStep ==
    \A t \in Tasks :
        (Outlived(t) /\ tasks'[t] # tasks[t] /\ instances' # instances)
            => /\ \A k \in Keys(instances) : MapHas(instances', k)
               /\ \A k \in Keys(instances') :
                      ~MapHas(instances, k)
                          => \E i \in 1..Len(tasks[t].fr) : tasks[t].fr[i].tok = k

\* What the code keeps: such a call only adds to the cache, and only
\* instances for the tokens it was resolving.
C39_WritesOwnTokens == [][C39_RejectedStep]_vars

C39_WritesOwnTokens_Witness ==
    \E t \in Tasks :
        /\ Fulfilled(t) /\ tasks[t].startProv # <<>> /\ providers = <<>>
        /\ MapHas(instances, tasks[t].tok)

====
